---- MODULE Spec2Model ----
(***************************************************************************)
(* Model of the catalog search page (search script, part_000): the         *)
(* chunk scanner (clearResults / loadNextChunk), the debounced query       *)
(* handlers, the filter predicate matchItem and the two normalizers.       *)
(*                                                                         *)
(* JavaScript values are tagged records: Str(s) with s a sequence of       *)
(* one-character strings, Bool(b), Num(n), Arr(xs), Obj(r), Undef.         *)
(* The page is single threaded: every action below is one task of the      *)
(* event loop (a handler run to its first await, or the continuation of    *)
(* a settled await run to completion).                                     *)
(***************************************************************************)
EXTENDS Integers, Sequences, FiniteSets, TLC

VARIABLES
  state,        \* the query state object (q, maker, series, hasImg, hasMov, tags)
  manifest,     \* normalized manifest, or Null
  chunks,       \* working copy of manifest.chunks
  chunkIndex,   \* cursor into chunks (0-based, as in the source)
  loading,      \* the loading guard
  scanned,      \* counter: entries decoded
  shown,        \* counter: entries that matched
  results,      \* ids of the cards appended to elResults, in order
  status,       \* kind of text shown in elStatus
  initPc,       \* position of init(): loadManifest / failed / awaitFirst / observing
  inflight,     \* suspended loadNextChunk calls (awaiting loadChunkData)
  timers,       \* pending setTimeout timers: id -> remaining milliseconds
  debounceTimer,\* id returned by the last setTimeout of debounceSearch (0 = null)
  started,      \* history: chunks whose fetch started since the last clearResults
  merged,       \* history: fetches settled since the last clearResults
  burst,        \* history: bookkeeping of the latest query change
  config,       \* the page's settings: embedded blob, legacy URL, DecompressionStream
  legacyFetched,\* history: loadManifest fetched the legacy manifest URL
  input,        \* argument handed to a pure function under test
  output,       \* its result
  localStorage, \* the keys catalog:favs:v1 (favs) and shorts:fav_features:v1 (feats)
  siteFavs,     \* state.favs of site.js, its in-memory copy of catalog:favs:v1
  today,        \* new Date().toISOString().slice(0, 10)
  gens          \* the generators made by mulberry32, each with the values it returned

vars == <<state, manifest, chunks, chunkIndex, loading, scanned, shown, results,
          status, initPc, inflight, timers, debounceTimer, started, merged, burst,
          config, legacyFetched, input, output, localStorage, siteFavs, today, gens>>

\* what no handler of the page writes
fixed == <<config, input, output, localStorage, siteFavs, today, gens>>

----------------------------------------------------------------------------
(* Bounds of the model *)

NumChunks == 2
MaxTimers == 2
TickMs == 60
MaxFilters == 1

(* Program constant: the debounce delay of debounceSearch *)
DebounceMs == 120

----------------------------------------------------------------------------
(* JavaScript values *)

Str(s) == [t |-> "str", v |-> s]
Bool(b) == [t |-> "bool", v |-> b]
Num(n) == [t |-> "num", v |-> n]
Arr(xs) == [t |-> "arr", v |-> xs]
Obj(r) == [t |-> "obj", v |-> r]
Undef == [t |-> "undef"]
Null == [t |-> "null"]

Falsy(x) ==
  \/ x.t \in {"undef", "null"}
  \/ x.t = "bool" /\ x.v = FALSE
  \/ x.t = "num" /\ x.v = 0
  \/ x.t = "str" /\ x.v = <<>>

Truthy(x) == ~Falsy(x)

IsArray(x) == x.t = "arr"

\* x || d
OrElse(x, d) == IF Falsy(x) THEN d ELSE x

\* property read o.f of an object (undefined when the property is absent)
Get(o, f) == IF f \in DOMAIN o.v THEN o.v[f] ELSE Undef

\* element read a[i] of a JavaScript array, i 0-based (undefined past the end)
At(a, i) == IF i + 1 <= Len(a) THEN a[i + 1] ELSE Undef

Digits == <<"0", "1", "2", "3", "4", "5", "6", "7", "8", "9">>

\* x.toString() for the truthy scalars the catalog data can hold
JsToString(x) ==
  CASE x.t = "str" -> x.v
    [] x.t = "bool" -> IF x.v THEN <<"t", "r", "u", "e">> ELSE <<"f", "a", "l", "s", "e">>
    [] x.t = "num" -> <<Digits[(x.v % 10) + 1]>>
    [] OTHER -> <<>>

LowerOf(c) ==
  CASE c = "V" -> "v"
    [] c = "R" -> "r"
    [] c = "P" -> "p"
    [] c = "M" -> "m"
    [] c = "S" -> "s"
    [] OTHER -> c

ToLowerCase(s) == [i \in 1..Len(s) |-> LowerOf(s[i])]

IsSpace(c) == c = " "

RECURSIVE TrimLeft(_)
TrimLeft(s) == IF s # <<>> /\ IsSpace(Head(s)) THEN TrimLeft(Tail(s)) ELSE s

RECURSIVE TrimRight(_)
TrimRight(s) ==
  IF s # <<>> /\ IsSpace(s[Len(s)]) THEN TrimRight(SubSeq(s, 1, Len(s) - 1)) ELSE s

Trim(s) == TrimRight(TrimLeft(s))

\* (s || "").toString().toLowerCase().trim()
norm(s) == Trim(ToLowerCase(JsToString(OrElse(s, Str(<<>>)))))

RECURSIVE Join(_, _)
Join(ss, sep) ==
  IF ss = <<>> THEN <<>>
  ELSE IF Len(ss) = 1 THEN ss[1]
  ELSE ss[1] \o sep \o Join(Tail(ss), sep)

\* hay.includes(q) on strings: substring test
Includes(hay, q) ==
  \E i \in 0..(Len(hay) - Len(q)) : SubSeq(hay, i + 1, i + Len(q)) = q

\* arr.includes(x) on arrays
ArrIncludes(xs, x) == \E i \in 1..Len(xs) : xs[i] = x

\* ...(x || []) : the elements spread into an array literal
Spread(x) ==
  IF Falsy(x) THEN <<>>
  ELSE IF x.t = "arr" THEN x.v
  ELSE IF x.t = "str" THEN [i \in 1..Len(x.v) |-> Str(<<x.v[i]>>)]
  ELSE <<>>

----------------------------------------------------------------------------
(* PayloadCodec normalizers *)

\* mutant: the compact marker v is carried into the result
normalizeManifest_KeepV(m) ==
  IF m.t = "obj" /\ Get(m, "v") = Num(3)
  THEN Obj([v |-> Num(3),
            version |-> Num(3),
            generated_at |-> Get(m, "ga"),
            total |-> OrElse(Get(m, "t"), Num(0)),
            chunk_size |-> OrElse(Get(m, "cs"), Num(0)),
            chunks |-> Arr([i \in 1..Len(OrElse(Get(m, "c"), Arr(<<>>)).v) |->
                         LET x == OrElse(Get(m, "c"), Arr(<<>>)).v[i]
                         IN Obj([file |-> At(x.v, 0), count |-> At(x.v, 1)])]),
            popular_tags |-> Arr([i \in 1..Len(OrElse(Get(m, "pt"), Arr(<<>>)).v) |->
                         LET x == OrElse(Get(m, "pt"), Arr(<<>>)).v[i]
                         IN Obj([name |-> At(x.v, 0), count |-> At(x.v, 1)])]),
            makers |-> OrElse(Get(m, "mk"), Arr(<<>>)),
            series |-> OrElse(Get(m, "sr"), Arr(<<>>))])
  ELSE m

normalizeManifest(m) ==
  IF m.t = "obj" /\ Get(m, "v") = Num(3)
  THEN Obj([version |-> Num(3),
            generated_at |-> Get(m, "ga"),
            total |-> OrElse(Get(m, "t"), Num(0)),
            chunk_size |-> OrElse(Get(m, "cs"), Num(0)),
            chunks |-> Arr([i \in 1..Len(OrElse(Get(m, "c"), Arr(<<>>)).v) |->
                         LET x == OrElse(Get(m, "c"), Arr(<<>>)).v[i]
                         IN Obj([file |-> At(x.v, 0), count |-> At(x.v, 1)])]),
            popular_tags |-> Arr([i \in 1..Len(OrElse(Get(m, "pt"), Arr(<<>>)).v) |->
                         LET x == OrElse(Get(m, "pt"), Arr(<<>>)).v[i]
                         IN Obj([name |-> At(x.v, 0), count |-> At(x.v, 1)])]),
            makers |-> OrElse(Get(m, "mk"), Arr(<<>>)),
            series |-> OrElse(Get(m, "sr"), Arr(<<>>))])
  ELSE m

\* Number(x || 0) for the values the catalog holds
ToNumber(x) ==
  IF x.t = "num" THEN x
  ELSE IF x.t = "bool" THEN Num(IF x.v THEN 1 ELSE 0)
  ELSE Num(0)

\* mutant: the positions are copied without their defaults
normalizeItem_NoDefaults(it) ==
  IF IsArray(it)
  THEN Obj([id |-> At(it.v, 0),
            title |-> At(it.v, 1),
            release_date |-> At(it.v, 2),
            hero_image |-> At(it.v, 3),
            path |-> At(it.v, 4),
            tags |-> At(it.v, 5),
            actresses |-> At(it.v, 6),
            maker |-> At(it.v, 7),
            series |-> At(it.v, 8),
            has_img |-> Bool(Truthy(At(it.v, 9))),
            img_count |-> ToNumber(OrElse(At(it.v, 10), Num(0))),
            has_mov |-> Bool(Truthy(At(it.v, 11))),
            api_rank |-> At(it.v, 12)])
  ELSE it

normalizeItem(it) ==
  IF IsArray(it)
  THEN Obj([id |-> At(it.v, 0),
            title |-> At(it.v, 1),
            release_date |-> At(it.v, 2),
            hero_image |-> At(it.v, 3),
            path |-> At(it.v, 4),
            tags |-> OrElse(At(it.v, 5), Arr(<<>>)),
            actresses |-> OrElse(At(it.v, 6), Arr(<<>>)),
            maker |-> OrElse(At(it.v, 7), Str(<<>>)),
            series |-> OrElse(At(it.v, 8), Str(<<>>)),
            has_img |-> Bool(Truthy(At(it.v, 9))),
            img_count |-> ToNumber(OrElse(At(it.v, 10), Num(0))),
            has_mov |-> Bool(Truthy(At(it.v, 11))),
            api_rank |-> At(it.v, 12)])
  ELSE it

----------------------------------------------------------------------------
(* FilterPredicate *)

\* mutant: the has-video checkbox is not consulted
matchItemIn_VideoUnchecked(st, it) ==
  IF st.hasImg /\ Falsy(Get(it, "has_img")) THEN FALSE
  ELSE IF FALSE THEN FALSE
  ELSE IF st.maker # <<>> /\ Get(it, "maker") # Str(st.maker) THEN FALSE
  ELSE IF st.series # <<>> /\ Get(it, "series") # Str(st.series) THEN FALSE
  ELSE IF /\ st.tags # {}
          /\ LET tags == IF IsArray(Get(it, "tags")) THEN Get(it, "tags").v ELSE <<>>
             IN \E tg \in st.tags : ~ArrIncludes(tags, Str(tg))
       THEN FALSE
  ELSE LET q == norm(Str(st.q))
       IN IF q = <<>> THEN TRUE
          ELSE LET fields == <<Get(it, "title"), Get(it, "maker"), Get(it, "series")>>
                               \o Spread(Get(it, "tags"))
                               \o Spread(Get(it, "actresses"))
                   hay == Join([i \in 1..Len(fields) |-> norm(fields[i])], <<" ">>)
               IN Includes(hay, q)

\* mutant: one selected tag found in the entry is enough
matchItemIn_AnyTag(st, it) ==
  IF st.hasImg /\ Falsy(Get(it, "has_img")) THEN FALSE
  ELSE IF st.hasMov /\ Falsy(Get(it, "has_mov")) THEN FALSE
  ELSE IF st.maker # <<>> /\ Get(it, "maker") # Str(st.maker) THEN FALSE
  ELSE IF st.series # <<>> /\ Get(it, "series") # Str(st.series) THEN FALSE
  ELSE IF /\ st.tags # {}
          /\ LET tags == IF IsArray(Get(it, "tags")) THEN Get(it, "tags").v ELSE <<>>
             IN \A tg \in st.tags : ~ArrIncludes(tags, Str(tg))
       THEN FALSE
  ELSE LET q == norm(Str(st.q))
       IN IF q = <<>> THEN TRUE
          ELSE LET fields == <<Get(it, "title"), Get(it, "maker"), Get(it, "series")>>
                               \o Spread(Get(it, "tags"))
                               \o Spread(Get(it, "actresses"))
                   hay == Join([i \in 1..Len(fields) |-> norm(fields[i])], <<" ">>)
               IN Includes(hay, q)

\* mutant: the maker is compared also when no maker is selected
matchItemIn_MakerAlways(st, it) ==
  IF st.hasImg /\ Falsy(Get(it, "has_img")) THEN FALSE
  ELSE IF st.hasMov /\ Falsy(Get(it, "has_mov")) THEN FALSE
  ELSE IF Get(it, "maker") # Str(st.maker) THEN FALSE
  ELSE IF st.series # <<>> /\ Get(it, "series") # Str(st.series) THEN FALSE
  ELSE IF /\ st.tags # {}
          /\ LET tags == IF IsArray(Get(it, "tags")) THEN Get(it, "tags").v ELSE <<>>
             IN \E tg \in st.tags : ~ArrIncludes(tags, Str(tg))
       THEN FALSE
  ELSE LET q == norm(Str(st.q))
       IN IF q = <<>> THEN TRUE
          ELSE LET fields == <<Get(it, "title"), Get(it, "maker"), Get(it, "series")>>
                               \o Spread(Get(it, "tags"))
                               \o Spread(Get(it, "actresses"))
                   hay == Join([i \in 1..Len(fields) |-> norm(fields[i])], <<" ">>)
               IN Includes(hay, q)

\* mutant: the performers are left out of the searched text
matchItemIn_NoPerformers(st, it) ==
  IF st.hasImg /\ Falsy(Get(it, "has_img")) THEN FALSE
  ELSE IF st.hasMov /\ Falsy(Get(it, "has_mov")) THEN FALSE
  ELSE IF st.maker # <<>> /\ Get(it, "maker") # Str(st.maker) THEN FALSE
  ELSE IF st.series # <<>> /\ Get(it, "series") # Str(st.series) THEN FALSE
  ELSE IF /\ st.tags # {}
          /\ LET tags == IF IsArray(Get(it, "tags")) THEN Get(it, "tags").v ELSE <<>>
             IN \E tg \in st.tags : ~ArrIncludes(tags, Str(tg))
       THEN FALSE
  ELSE LET q == norm(Str(st.q))
       IN IF q = <<>> THEN TRUE
          ELSE LET fields == <<Get(it, "title"), Get(it, "maker"), Get(it, "series")>>
                               \o Spread(Get(it, "tags"))
                   hay == Join([i \in 1..Len(fields) |-> norm(fields[i])], <<" ">>)
               IN Includes(hay, q)

\* matchItem against an explicit query state
matchItemIn(st, it) ==
  IF st.hasImg /\ Falsy(Get(it, "has_img")) THEN FALSE
  ELSE IF st.hasMov /\ Falsy(Get(it, "has_mov")) THEN FALSE
  ELSE IF st.maker # <<>> /\ Get(it, "maker") # Str(st.maker) THEN FALSE
  ELSE IF st.series # <<>> /\ Get(it, "series") # Str(st.series) THEN FALSE
  ELSE IF /\ st.tags # {}
          /\ LET tags == IF IsArray(Get(it, "tags")) THEN Get(it, "tags").v ELSE <<>>
             IN \E tg \in st.tags : ~ArrIncludes(tags, Str(tg))
       THEN FALSE
  ELSE LET q == norm(Str(st.q))
       IN IF q = <<>> THEN TRUE
          ELSE LET fields == <<Get(it, "title"), Get(it, "maker"), Get(it, "series")>>
                               \o Spread(Get(it, "tags"))
                               \o Spread(Get(it, "actresses"))
                   hay == Join([i \in 1..Len(fields) |-> norm(fields[i])], <<" ">>)
               IN Includes(hay, q)

\* matchItem reads the module-level query state
matchItem(it) == matchItemIn(state, it)

----------------------------------------------------------------------------
(* The catalog served to the page: NumChunks chunk files.  Odd chunks are   *)
(* obfuscated ".dat" files holding 3 positional-array entries, even chunks  *)
(* are plain ".json" files holding 2 object entries.                        *)

Dig(n) == Digits[(n % 10) + 1]

DotDat == <<".", "d", "a", "t">>
DotJson == <<".", "j", "s", "o", "n">>

TagVr == <<"v", "r">>
TagOutdoor == <<"o", "d">>
MakerM == <<"M">>
SeriesS == <<"S">>

ChunkIsDat(k) == k % 2 = 1

ChunkFile(k) == <<"c", Dig(k)>> \o (IF ChunkIsDat(k) THEN DotDat ELSE DotJson)

ChunkCount(k) == IF ChunkIsDat(k) THEN 3 ELSE 2

\* the j-th entry of chunk k as the build writes it: the first entry of a
\* chunk carries every feature the filters can ask for, the second carries
\* other values, the third is a positional array cut after its path
RawEntry(k, j) ==
  LET id == Str(<<"w", Dig(k), Dig(j)>>)
      title == Str(IF j = 1 THEN <<"V", "R", " ", "x">> ELSE <<"y">>)
      tags == Arr(IF j = 1 THEN <<Str(TagOutdoor), Str(TagVr)>> ELSE <<Str(TagOutdoor)>>)
      actresses == Arr(IF j = 1 THEN <<Str(<<"P">>)>> ELSE <<>>)
      maker == Str(IF j = 1 THEN MakerM ELSE <<>>)
      series == Str(IF j = 1 THEN SeriesS ELSE <<"z">>)
      path == Str(<<"p", Dig(k), Dig(j)>>)
      flag == IF j = 1 THEN 1 ELSE 0
  IN IF ChunkIsDat(k)
     THEN IF j = 3
          THEN Arr(<<id, title, Str(<<>>), Str(<<>>), path>>)
          ELSE Arr(<<id, title, Str(<<>>), Str(<<>>), path, tags, actresses, maker,
                     series, Num(flag), Num(flag), Num(flag), Num(j)>>)
     ELSE IF j = 1
          THEN Obj([id |-> id, title |-> title, release_date |-> Str(<<>>),
                    hero_image |-> Str(<<>>), path |-> path, tags |-> tags,
                    actresses |-> actresses, maker |-> maker, series |-> series,
                    has_img |-> Bool(TRUE), img_count |-> Num(1),
                    has_mov |-> Bool(TRUE), api_rank |-> Num(j)])
          ELSE Obj([id |-> id, title |-> title, path |-> path, tags |-> tags,
                    series |-> series, has_img |-> Bool(FALSE)])

ChunkItems(k) == Arr([j \in 1..ChunkCount(k) |-> RawEntry(k, j)])

RECURSIVE SumCounts(_)
SumCounts(n) == IF n = 0 THEN 0 ELSE ChunkCount(n) + SumCounts(n - 1)

\* the manifest document as the build embeds it (compact v:3 form)
RawManifest ==
  Obj([v |-> Num(3),
       ga |-> Str(<<"g">>),
       t |-> Num(SumCounts(NumChunks)),
       cs |-> Num(3),
       c |-> Arr([k \in 1..NumChunks |-> Arr(<<Str(ChunkFile(k)), Num(ChunkCount(k))>>)]),
       pt |-> Arr(<<Arr(<<Str(TagVr), Num(NumChunks)>>)>>),
       mk |-> Arr(<<Str(MakerM)>>),
       sr |-> Arr(<<Str(SeriesS)>>)])

\* s.endsWith(suffix)
EndsWith(s, suffix) ==
  /\ Len(s) >= Len(suffix)
  /\ SubSeq(s, Len(s) - Len(suffix) + 1, Len(s)) = suffix

\* what the server holds for a chunk file: the encoding of the body and
\* the JSON value it encodes
ServerBody(file) ==
  LET k == CHOOSE i \in 1..NumChunks : ChunkFile(i) = file
  IN [enc |-> IF EndsWith(file, DotDat) THEN "dat" ELSE "json", value |-> ChunkItems(k)]

\* the responses a fetch of a chunk file can settle with: a network error,
\* an HTTP error status, or a 200 whose body is the file, a damaged body,
\* or a body encoding a JSON value that is not an array
Responses(file) ==
  { [neterr |-> TRUE, ok |-> FALSE, body |-> [enc |-> "none", value |-> Undef]],
    [neterr |-> FALSE, ok |-> FALSE, body |-> [enc |-> "none", value |-> Undef]],
    [neterr |-> FALSE, ok |-> TRUE, body |-> ServerBody(file)],
    [neterr |-> FALSE, ok |-> TRUE, body |-> [enc |-> "damaged", value |-> Undef]],
    [neterr |-> FALSE, ok |-> TRUE,
     body |-> [enc |-> ServerBody(file).enc, value |-> Obj([e |-> Num(1)])]] }

Threw == [threw |-> TRUE, value |-> Undef]
Returned(x) == [threw |-> FALSE, value |-> x]

\* base64 -> XOR -> gunzip -> JSON.parse: succeeds only on a body that was
\* produced by the inverse pipeline, and only where gunzip finds a
\* DecompressionStream
decodePayload(body) ==
  IF body.enc = "dat" /\ config.decompress THEN Returned(body.value) ELSE Threw

\* res.json(): succeeds only on a body that is JSON text
ResJson(body) == IF body.enc = "json" THEN Returned(body.value) ELSE Threw

\* mutant: every chunk is read as plain JSON
loadChunkData_AlwaysJson(chunk, res) ==
  IF res.neterr THEN Threw
  ELSE IF ~res.ok THEN Threw
  ELSE ResJson(res.body)

loadChunkData(chunk, res) ==
  IF res.neterr THEN Threw
  ELSE IF ~res.ok THEN Threw
  ELSE IF EndsWith(Get(chunk, "file").v, DotDat) THEN decodePayload(res.body)
  ELSE ResJson(res.body)

----------------------------------------------------------------------------
(* loadManifest() *)

\* window.__SEARCH_EMBED__ of a build: the intact blob, and a damaged one
EmbedIntact == <<"H", "4", "s">>
EmbedDamaged == <<"H", "4", "?">>
EmbedBlank == <<" ">>

\* window.__SEARCH_MANIFEST__ of an old build
LegacyUrl == <<"m", ".", "j", "s", "o", "n">>

\* b64.replace(/\s+/g, "").trim(), and what the cleaned text encodes
BlobBody(b64) ==
  LET clean == Trim(SelectSeq(b64, LAMBDA c : ~IsSpace(c)))
  IN IF clean = EmbedIntact THEN [enc |-> "dat", value |-> RawManifest]
     ELSE [enc |-> "damaged", value |-> Undef]

\* the manifest document of an old build (canonical form)
LegacyManifest ==
  Obj([version |-> Num(2),
       generated_at |-> Str(<<"g">>),
       total |-> Num(SumCounts(NumChunks)),
       chunk_size |-> Num(3),
       chunks |-> Arr([k \in 1..NumChunks |->
                     Obj([file |-> Str(ChunkFile(k)), count |-> Num(ChunkCount(k))])]),
       popular_tags |-> Arr(<<Obj([name |-> Str(TagVr), count |-> Num(NumChunks)])>>),
       makers |-> Arr(<<Str(MakerM)>>),
       series |-> Arr(<<Str(SeriesS)>>)])

\* the responses the fetch of the legacy manifest URL can settle with
ManifestResponses ==
  { [neterr |-> TRUE, ok |-> FALSE, body |-> [enc |-> "none", value |-> Undef]],
    [neterr |-> FALSE, ok |-> FALSE, body |-> [enc |-> "damaged", value |-> Undef]],
    [neterr |-> FALSE, ok |-> TRUE, body |-> [enc |-> "damaged", value |-> Undef]],
    [neterr |-> FALSE, ok |-> TRUE, body |-> [enc |-> "json", value |-> LegacyManifest]],
    [neterr |-> FALSE, ok |-> TRUE, body |-> [enc |-> "json", value |-> RawManifest]] }

Loaded(r, fetched) == [threw |-> r.threw, fetched |-> fetched,
                       value |-> IF r.threw THEN Undef ELSE normalizeManifest(r.value)]

\* mutant: a blob that fails to decode falls back to the legacy URL
loadManifest_FallBackOnError(cfg, res) ==
  IF /\ Truthy(cfg.embed) /\ Trim(cfg.embed.v) # <<>>
     /\ ~decodePayload(BlobBody(cfg.embed.v)).threw
  THEN Loaded(decodePayload(BlobBody(cfg.embed.v)), FALSE)
  ELSE IF Falsy(cfg.legacy) THEN Loaded(Threw, FALSE)
  ELSE IF res.neterr THEN Loaded(Threw, TRUE)
  ELSE Loaded(ResJson(res.body), TRUE)

\* loadManifest(): the embedded blob when one is set, else the legacy URL
\* (fetched without a look at res.ok); res is what that fetch settles with
loadManifest(cfg, res) ==
  IF Truthy(cfg.embed) /\ Trim(cfg.embed.v) # <<>>
  THEN Loaded(decodePayload(BlobBody(cfg.embed.v)), FALSE)
  ELSE IF Falsy(cfg.legacy) THEN Loaded(Threw, FALSE)
  ELSE IF res.neterr THEN Loaded(Threw, TRUE)
  ELSE Loaded(ResJson(res.body), TRUE)

----------------------------------------------------------------------------
(* ChunkScanner.  The scanner's fields are gathered in a record so that a  *)
(* handler can run clearResults and loadNextChunk one after the other.     *)

Cur ==
  [chunks |-> chunks, chunkIndex |-> chunkIndex, loading |-> loading,
   scanned |-> scanned, shown |-> shown, results |-> results, status |-> status,
   inflight |-> inflight, started |-> started, merged |-> merged]

Apply(S) ==
  /\ chunks' = S.chunks
  /\ chunkIndex' = S.chunkIndex
  /\ loading' = S.loading
  /\ scanned' = S.scanned
  /\ shown' = S.shown
  /\ results' = S.results
  /\ status' = S.status
  /\ inflight' = S.inflight
  /\ started' = S.started
  /\ merged' = S.merged

\* the texts written to elStatus
MsgNone == "none"
MsgCounts == "counts"
MsgChunkFailed == "chunkFailed"
MsgManifestFailed == "manifestFailed"
MsgUnsupported == "unsupported"

updateStatus(S, m) == IF m = Null THEN S ELSE [S EXCEPT !.status = MsgCounts]

\* mutant: the shown counter is not zeroed
clearResults_KeepShown(S, m) ==
  updateStatus(
    [S EXCEPT !.results = <<>>,
              !.chunkIndex = 0,
              !.scanned = 0,
              !.chunks = IF m # Null THEN Get(m, "chunks").v ELSE <<>>,
              !.inflight = {[f EXCEPT !.stale = TRUE] : f \in @},
              !.started = <<>>,
              !.merged = <<>>], m)

\* mutant: the cursor is not rewound
clearResults_NoRewind(S, m) ==
  updateStatus(
    [S EXCEPT !.results = <<>>,
              !.scanned = 0,
              !.shown = 0,
              !.chunks = IF m # Null THEN Get(m, "chunks").v ELSE <<>>,
              !.inflight = {[f EXCEPT !.stale = TRUE] : f \in @},
              !.started = <<>>,
              !.merged = <<>>], m)

\* mutant: the scanned counter is not zeroed
clearResults_KeepScanned(S, m) ==
  updateStatus(
    [S EXCEPT !.results = <<>>,
              !.chunkIndex = 0,
              !.shown = 0,
              !.chunks = IF m # Null THEN Get(m, "chunks").v ELSE <<>>,
              !.inflight = {[f EXCEPT !.stale = TRUE] : f \in @},
              !.started = <<>>,
              !.merged = <<>>], m)

\* clearResults(); a call still awaiting its fetch is not cancelled, the
\* history only marks it as started before this reset
clearResults(S, m) ==
  updateStatus(
    [S EXCEPT !.results = <<>>,
              !.chunkIndex = 0,
              !.scanned = 0,
              !.shown = 0,
              !.chunks = IF m # Null THEN Get(m, "chunks").v ELSE <<>>,
              !.inflight = {[f EXCEPT !.stale = TRUE] : f \in @},
              !.started = <<>>,
              !.merged = <<>>], m)

\* mutant: the guard is not set when the fetch begins
loadNextChunk_GuardNotSet(S, m, origin) ==
  IF S.loading THEN S
  ELSE IF m = Null THEN S
  ELSE IF S.chunkIndex >= Len(S.chunks) THEN S
  ELSE LET chunk == S.chunks[S.chunkIndex + 1]
       IN [S EXCEPT !.chunkIndex = @ + 1,
                    !.inflight = @ \cup {[chunk |-> chunk, origin |-> origin, stale |-> FALSE]},
                    !.started = Append(@, chunk)]

\* mutant: the early return on the guard is missing
loadNextChunk_NoLoadingCheck(S, m, origin) ==
  IF m = Null THEN S
  ELSE IF S.chunkIndex >= Len(S.chunks) THEN S
  ELSE LET chunk == S.chunks[S.chunkIndex + 1]
       IN [S EXCEPT !.loading = TRUE,
                    !.chunkIndex = @ + 1,
                    !.inflight = @ \cup {[chunk |-> chunk, origin |-> origin, stale |-> FALSE]},
                    !.started = Append(@, chunk)]

\* loadNextChunk() up to its await: the three early returns, then the guard
\* is set, the cursor advanced and the fetch of the chunk begun
loadNextChunk(S, m, origin) ==
  IF S.loading THEN S
  ELSE IF m = Null THEN S
  ELSE IF S.chunkIndex >= Len(S.chunks) THEN S
  ELSE LET chunk == S.chunks[S.chunkIndex + 1]
       IN [S EXCEPT !.loading = TRUE,
                    !.chunkIndex = @ + 1,
                    !.inflight = @ \cup {[chunk |-> chunk, origin |-> origin, stale |-> FALSE]},
                    !.started = Append(@, chunk)]

\* mutant: the counters are set to the chunk's counts, not raised by them
loadNextChunkTry_Overwrite(S, m, rawItems) ==
  LET items == IF IsArray(rawItems) THEN rawItems.v ELSE <<>>
      its == [i \in 1..Len(items) |-> normalizeItem(items[i])]
      hits == SelectSeq(its, matchItem)
  IN updateStatus(
       [S EXCEPT !.scanned = Len(items),
                 !.shown = Len(hits),
                 !.results = @ \o [i \in 1..Len(hits) |-> Get(hits[i], "id")]], m)

\* the try block of loadNextChunk after the await returned rawItems
loadNextChunkTry(S, m, rawItems) ==
  LET items == IF IsArray(rawItems) THEN rawItems.v ELSE <<>>
      its == [i \in 1..Len(items) |-> normalizeItem(items[i])]
      hits == SelectSeq(its, matchItem)
  IN updateStatus(
       [S EXCEPT !.scanned = @ + Len(items),
                 !.shown = @ + Len(hits),
                 !.results = @ \o [i \in 1..Len(hits) |-> Get(hits[i], "id")]], m)

\* the catch block
loadNextChunkCatch(S) == [S EXCEPT !.status = MsgChunkFailed]

\* mutant: the guard is left set
loadNextChunkFinally_Keep(S) == S

\* the finally block
loadNextChunkFinally(S) == [S EXCEPT !.loading = FALSE]

\* mutant: the guard is cleared at the end of the try block, not in a finally
loadNextChunkResume_NoFinally(S, m, f, res) ==
  LET r == loadChunkData(f.chunk, res)
      n == IF ~r.threw /\ IsArray(r.value) THEN Len(r.value.v) ELSE 0
      served == ~res.neterr /\ res.ok /\ res.body = ServerBody(Get(f.chunk, "file").v)
      S1 == [S EXCEPT !.inflight = @ \ {f},
                      !.merged = Append(@, [file |-> Get(f.chunk, "file"),
                                            stale |-> f.stale, ok |-> ~r.threw, n |-> n,
                                            served |-> served])]
  IN IF r.threw THEN loadNextChunkCatch(S1)
     ELSE loadNextChunkFinally(loadNextChunkTry(S1, m, r.value))

\* mutant: the entries of a fetch begun before the latest clearResults are
\* dropped
loadNextChunkResume_DropStale(S, m, f, res) ==
  LET r == loadChunkData(f.chunk, res)
      n == IF ~r.threw /\ IsArray(r.value) THEN Len(r.value.v) ELSE 0
      served == ~res.neterr /\ res.ok /\ res.body = ServerBody(Get(f.chunk, "file").v)
      S1 == [S EXCEPT !.inflight = @ \ {f},
                      !.merged = Append(@, [file |-> Get(f.chunk, "file"),
                                            stale |-> f.stale, ok |-> ~r.threw, n |-> n,
                                            served |-> served])]
      S2 == IF r.threw THEN loadNextChunkCatch(S1)
            ELSE IF f.stale THEN S1
            ELSE loadNextChunkTry(S1, m, r.value)
  IN loadNextChunkFinally(S2)

\* loadNextChunk() from the settlement of its await to its end
loadNextChunkResume(S, m, f, res) ==
  LET r == loadChunkData(f.chunk, res)
      n == IF ~r.threw /\ IsArray(r.value) THEN Len(r.value.v) ELSE 0
      served == ~res.neterr /\ res.ok /\ res.body = ServerBody(Get(f.chunk, "file").v)
      S1 == [S EXCEPT !.inflight = @ \ {f},
                      !.merged = Append(@, [file |-> Get(f.chunk, "file"),
                                            stale |-> f.stale, ok |-> ~r.threw, n |-> n,
                                            served |-> served])]
      S2 == IF r.threw THEN loadNextChunkCatch(S1) ELSE loadNextChunkTry(S1, m, r.value)
  IN loadNextChunkFinally(S2)

----------------------------------------------------------------------------
(* Timers of the event loop *)

Min(a, b) == IF a <= b THEN a ELSE b
Max(a, b) == IF a >= b THEN a ELSE b

\* mutant: the pending timer is not cancelled
clearTimeout_Noop(ts, id) == ts

clearTimeout(ts, id) == [i \in (DOMAIN ts) \ {id} |-> ts[i]]

\* a timer that fires leaves the timer table
Expire(ts, id) == [i \in (DOMAIN ts) \ {id} |-> ts[i]]

FreeIds(ts) == (1..MaxTimers) \ DOMAIN ts

\* debounceSearch(): cancel the pending timer, arm a new one
debounceSearch ==
  LET cleared == clearTimeout(timers, debounceTimer)
  IN /\ FreeIds(cleared) # {}
     /\ LET id == CHOOSE i \in FreeIds(cleared) : \A j \in FreeIds(cleared) : i <= j
        IN /\ timers' = [i \in DOMAIN cleared \cup {id} |->
                           IF i = id THEN DebounceMs ELSE cleared[i]]
           /\ debounceTimer' = id
     /\ burst' = [age |-> 0, resets |-> 0, early |-> FALSE,
                   n |-> IF DOMAIN timers # {} THEN Min(2, burst.n + 1) ELSE 1]

\* time passes
Tick ==
  /\ \E id \in DOMAIN timers : timers[id] > 0
  /\ timers' = [id \in DOMAIN timers |-> Max(0, timers[id] - TickMs)]
  /\ burst' = [burst EXCEPT !.age = Min(DebounceMs, @ + TickMs)]
  /\ UNCHANGED <<state, manifest, chunks, chunkIndex, loading, scanned, shown, results,
                 status, initPc, inflight, debounceTimer, started, merged, legacyFetched,
                 fixed>>

\* the callback armed by debounceSearch: clearResults(); loadNextChunk();
DebounceFire(id) ==
  /\ id \in DOMAIN timers
  /\ timers[id] = 0
  /\ timers' = Expire(timers, id)
  /\ Apply(loadNextChunk(clearResults(Cur, manifest), manifest, "timer"))
  /\ burst' = [burst EXCEPT !.resets = Min(2, @ + 1),
                            !.early = @ \/ burst.age < DebounceMs]
  /\ UNCHANGED <<state, manifest, initPc, debounceTimer, legacyFetched, fixed>>

----------------------------------------------------------------------------
(* init() *)

EmptyState ==
  [q |-> <<>>, maker |-> <<>>, series |-> <<>>, hasImg |-> FALSE, hasMov |-> FALSE,
   tags |-> {}]

\* localStorage without the favourites keys
EmptyStorage == [favs |-> <<>>, feats |-> <<>>]

\* the shorts page is not open
ShortsIdle ==
  /\ localStorage = EmptyStorage
  /\ siteFavs = <<>>
  /\ today = <<>>
  /\ gens = <<>>

\* no pure function is under test
NoInput == [fn |-> "none", arg |-> Undef, entry |-> Undef]

\* the module-level variables of the search script as the script sets them
ScannerInit ==
  /\ manifest = Null
  /\ chunks = <<>>
  /\ chunkIndex = 0
  /\ loading = FALSE
  /\ scanned = 0
  /\ shown = 0
  /\ results = <<>>
  /\ status = MsgNone
  /\ initPc = "loadManifest"
  /\ inflight = {}
  /\ timers = <<>>
  /\ debounceTimer = 0
  /\ started = <<>>
  /\ merged = <<>>
  /\ burst = [age |-> DebounceMs, resets |-> 0, early |-> FALSE, n |-> 0]
  /\ legacyFetched = FALSE

\* a page built with an embedded manifest blob, intact or damaged, in a
\* browser that has DecompressionStream
Init ==
  /\ state = EmptyState
  /\ config \in {[embed |-> Str(e), legacy |-> Undef, decompress |-> TRUE] :
                   e \in {EmbedIntact, EmbedDamaged}}
  /\ ScannerInit
  /\ input = NoInput
  /\ output = <<>>
  /\ ShortsIdle

\* init(): loadManifest() resolved; bindInputs(); clearResults();
\* await loadNextChunk()
InitManifestLoaded ==
  /\ initPc = "loadManifest"
  /\ \E res \in ManifestResponses :
       LET r == loadManifest(config, res)
       IN /\ ~r.threw
          /\ manifest' = r.value
          /\ legacyFetched' = r.fetched
  /\ LET S == loadNextChunk(clearResults(Cur, manifest'), manifest', "init")
     IN /\ Apply(S)
        /\ initPc' = IF S.inflight = {} THEN "observing" ELSE "awaitFirst"
  /\ UNCHANGED <<state, timers, debounceTimer, burst, fixed>>

\* mutant: the manifest failure is reported with the chunk failure text
InitManifestFailed_ChunkText ==
  /\ initPc = "loadManifest"
  /\ \E res \in ManifestResponses :
       LET r == loadManifest(config, res)
       IN /\ r.threw
          /\ legacyFetched' = r.fetched
  /\ initPc' = "failed"
  /\ status' = MsgChunkFailed
  /\ UNCHANGED <<state, manifest, chunks, chunkIndex, loading, scanned, shown, results,
                 inflight, timers, debounceTimer, started, merged, burst, fixed>>

\* init(): loadManifest() rejected; the catch reports and returns
InitManifestFailed ==
  /\ initPc = "loadManifest"
  /\ \E res \in ManifestResponses :
       LET r == loadManifest(config, res)
       IN /\ r.threw
          /\ legacyFetched' = r.fetched
  /\ initPc' = "failed"
  /\ status' = IF ~config.decompress THEN MsgUnsupported ELSE MsgManifestFailed
  /\ UNCHANGED <<state, manifest, chunks, chunkIndex, loading, scanned, shown, results,
                 inflight, timers, debounceTimer, started, merged, burst, fixed>>

\* bindInputs() has run
Bound == initPc \in {"awaitFirst", "observing"}

\* the fetch awaited by a loadNextChunk call settles; the call runs to its
\* end, and init() goes on to create the IntersectionObserver when the call
\* was its own
FetchSettle(f, res) ==
  /\ f \in inflight
  /\ Apply(loadNextChunkResume(Cur, manifest, f, res))
  /\ initPc' = IF f.origin = "init" THEN "observing" ELSE initPc
  /\ UNCHANGED <<state, manifest, timers, debounceTimer, burst, legacyFetched, fixed>>

\* the IntersectionObserver callback with an intersecting entry
OnIntersect ==
  /\ initPc = "observing"
  /\ Apply(loadNextChunk(Cur, manifest, "io"))
  /\ UNCHANGED <<state, manifest, initPc, timers, debounceTimer, burst, legacyFetched,
                 fixed>>

----------------------------------------------------------------------------
(* bindInputs(): the query handlers *)

InputTexts == {<<>>, <<" ", "V", "R">>}

\* the option values of a select element filled by setOptionList
Options(list) == {<<>>} \cup {list.v[i].v : i \in 1..Len(list.v)}

\* number of filters the user has switched on
ActiveFilters(st) ==
  (IF st.q # <<>> THEN 1 ELSE 0) + (IF st.maker # <<>> THEN 1 ELSE 0)
  + (IF st.series # <<>> THEN 1 ELSE 0) + (IF st.hasImg THEN 1 ELSE 0)
  + (IF st.hasMov THEN 1 ELSE 0) + Cardinality(st.tags)

ScannerUnchanged ==
  UNCHANGED <<manifest, chunks, chunkIndex, loading, scanned, shown, results, status,
              initPc, inflight, started, merged, legacyFetched, fixed>>

OnInputQ(text) ==
  /\ Bound
  /\ text # state.q
  /\ state' = [state EXCEPT !.q = text]
  /\ ActiveFilters(state') <= MaxFilters
  /\ debounceSearch
  /\ ScannerUnchanged

OnChangeMaker(v) ==
  /\ Bound
  /\ v \in Options(OrElse(Get(manifest, "makers"), Arr(<<>>)))
  /\ v # state.maker
  /\ state' = [state EXCEPT !.maker = v]
  /\ ActiveFilters(state') <= MaxFilters
  /\ debounceSearch
  /\ ScannerUnchanged

OnChangeSeries(v) ==
  /\ Bound
  /\ v \in Options(OrElse(Get(manifest, "series"), Arr(<<>>)))
  /\ v # state.series
  /\ state' = [state EXCEPT !.series = v]
  /\ ActiveFilters(state') <= MaxFilters
  /\ debounceSearch
  /\ ScannerUnchanged

OnChangeHasImg ==
  /\ Bound
  /\ state' = [state EXCEPT !.hasImg = ~@]
  /\ ActiveFilters(state') <= MaxFilters
  /\ debounceSearch
  /\ ScannerUnchanged

OnChangeHasMov ==
  /\ Bound
  /\ state' = [state EXCEPT !.hasMov = ~@]
  /\ ActiveFilters(state') <= MaxFilters
  /\ debounceSearch
  /\ ScannerUnchanged

OnClickClear ==
  /\ Bound
  /\ state' = EmptyState
  /\ ActiveFilters(state') <= MaxFilters
  /\ debounceSearch
  /\ ScannerUnchanged

\* the tag buttons rendered by renderTags
TagButtons ==
  LET pt == OrElse(Get(manifest, "popular_tags"), Arr(<<>>)).v
  IN {Get(pt[i], "name").v : i \in 1..Len(pt)} \cup state.tags

toggleTag(name) ==
  /\ Bound
  /\ name \in TagButtons
  /\ state' = [state EXCEPT !.tags = IF name \in @ THEN @ \ {name} ELSE @ \cup {name}]
  /\ ActiveFilters(state') <= MaxFilters
  /\ debounceSearch
  /\ ScannerUnchanged

----------------------------------------------------------------------------

FetchSettles ==
  \E f \in inflight : \E res \in Responses(Get(f.chunk, "file").v) : FetchSettle(f, res)

DebounceFires == \E id \in 1..MaxTimers : DebounceFire(id)

Next ==
  \/ InitManifestLoaded
  \/ InitManifestFailed
  \/ FetchSettles
  \/ OnIntersect
  \/ Tick
  \/ DebounceFires
  \/ \E text \in InputTexts : OnInputQ(text)
  \/ \E v \in {<<>>, MakerM} : OnChangeMaker(v)
  \/ \E v \in {<<>>, SeriesS} : OnChangeSeries(v)
  \/ OnChangeHasImg
  \/ OnChangeHasMov
  \/ OnClickClear
  \/ \E name \in {TagVr} : toggleTag(name)

Spec == Init /\ [][Next]_vars

\* the page under every setting of the blob, the legacy URL and the browser,
\* with a user who scrolls but does not touch the filters
Configs ==
  [embed : {Undef, Str(EmbedBlank), Str(EmbedIntact), Str(EmbedDamaged)},
   legacy : {Undef, Str(LegacyUrl)},
   decompress : BOOLEAN]

LoadInit ==
  /\ state = EmptyState
  /\ config \in Configs
  /\ ScannerInit
  /\ input = NoInput
  /\ output = <<>>
  /\ ShortsIdle

LoadNext ==
  \/ InitManifestLoaded
  \/ InitManifestFailed
  \/ FetchSettles
  \/ OnIntersect

LoadSpec == LoadInit /\ [][LoadNext]_vars

----------------------------------------------------------------------------
(* The pure functions matchItem, normalizeItem and normalizeManifest applied *)
(* to inputs drawn from bounded sets.                                        *)

MaxSelected == 2
MaxApply == 2

TagIndoor == <<"i", "n">>

\* texts typed into the search box
QueryTexts ==
  {<<>>, <<" ">>, <<"V", "R">>, <<" ", "x", " ", "M", " ">>, <<"d", " ", "v">>, <<"p">>,
   <<"z", "z">>}

\* the values the state object can hold
QueryStates ==
  [q : QueryTexts,
   maker : {<<>>, MakerM, <<"m">>},
   series : {<<>>, SeriesS},
   hasImg : BOOLEAN,
   hasMov : BOOLEAN,
   tags : {T \in SUBSET {TagVr, TagOutdoor, TagIndoor} : Cardinality(T) <= MaxSelected}]

\* entries handed to matchItem: the normalized entries of a .dat and of a
\* .json chunk, an entry with nothing but an id, one whose tags field is a
\* string, and one without image but with video
MatchEntries ==
  {normalizeItem(RawEntry(k, j)) : k \in 1..2, j \in 1..2}
    \cup {normalizeItem(RawEntry(1, 3)),
          Obj([id |-> Str(<<"e">>)]),
          Obj([id |-> Str(<<"s">>), title |-> Str(TagVr), tags |-> Str(TagVr),
               maker |-> Str(<<"m">>), has_img |-> Bool(TRUE), has_mov |-> Bool(FALSE)]),
          Obj([id |-> Str(<<"t">>), title |-> Str(<<"y">>),
               tags |-> Arr(<<Str(TagVr), Str(TagOutdoor)>>), actresses |-> Arr(<<>>),
               maker |-> Str(MakerM), series |-> Str(SeriesS),
               has_img |-> Bool(FALSE), has_mov |-> Bool(TRUE)])}

\* the positions of the array form, in order
ItemFields ==
  <<"id", "title", "release_date", "hero_image", "path", "tags", "actresses", "maker",
    "series", "has_img", "img_count", "has_mov", "api_rank">>

\* catalog entries in the object form: every named field with a value of its
\* type, api_rank optional
Entries ==
  {Obj(r) : r \in
     [id : {Str(<<"w">>)}, title : {Str(<<"y">>)}, release_date : {Str(<<"d">>)},
      hero_image : {Str(<<>>)}, path : {Str(<<"p">>)},
      tags : {Arr(<<>>), Arr(<<Str(TagOutdoor), Str(TagVr)>>)},
      actresses : {Arr(<<>>), Arr(<<Str(<<"P">>)>>)},
      maker : {Str(<<>>), Str(MakerM)},
      series : {Str(<<>>), Str(SeriesS)},
      has_img : {Bool(FALSE), Bool(TRUE)},
      img_count : {Num(0), Num(1)},
      has_mov : {Bool(FALSE), Bool(TRUE)},
      api_rank : {Undef, Num(1)}]}

\* the array form of an entry, its first len positions, the flags written
\* as true/false or as 1/0
ArrayForm(e, len, asNum) ==
  Arr([i \in 1..len |->
         LET x == Get(e, ItemFields[i])
         IN IF asNum /\ x.t = "bool" THEN Num(IF x.v THEN 1 ELSE 0) ELSE x])

\* the lengths the array form of e can be cut to: the positions left out
\* hold an empty list, an empty string, false, 0 or nothing
CutLengths(e) ==
  {len \in 5..Len(ItemFields) :
     \A i \in (len + 1)..Len(ItemFields) :
       Get(e, ItemFields[i]) \in {Arr(<<>>), Str(<<>>), Bool(FALSE), Num(0), Undef}}
    \ (IF Get(e, "api_rank") = Undef THEN {Len(ItemFields)} ELSE {})

\* compact manifests: the build's, one with its chunks in another order, and
\* ones lacking fields
CompactManifests ==
  {RawManifest,
   Obj([RawManifest.v EXCEPT
          !.c = Arr([k \in 1..NumChunks |->
                       Arr(<<Str(ChunkFile(NumChunks + 1 - k)),
                             Num(ChunkCount(NumChunks + 1 - k))>>)])]),
   Obj([v |-> Num(3)]),
   Obj([v |-> Num(3), ga |-> Str(<<"g">>), c |-> Get(RawManifest, "c")])}

\* legacy manifests in the canonical form
LegacyManifests ==
  {LegacyManifest,
   Obj([version |-> Num(2), chunks |-> Get(LegacyManifest, "chunks")])}

PureInputs ==
  {[fn |-> "matchItem", arg |-> e, entry |-> Undef] : e \in MatchEntries}
    \cup {[fn |-> "normalizeItem", arg |-> e, entry |-> e] : e \in Entries}
    \cup UNION {{[fn |-> "normalizeItem", arg |-> ArrayForm(e, len, asNum), entry |-> e] :
                   len \in CutLengths(e), asNum \in BOOLEAN} : e \in Entries}
    \cup {[fn |-> "normalizeManifest", arg |-> m, entry |-> Undef] :
            m \in CompactManifests \cup LegacyManifests}

PureInit ==
  /\ input \in PureInputs
  /\ state \in (IF input.fn = "matchItem" THEN QueryStates ELSE {EmptyState})
  /\ output = <<>>
  /\ config = [embed |-> Str(EmbedIntact), legacy |-> Undef, decompress |-> TRUE]
  /\ ScannerInit
  /\ ShortsIdle

PureUnchanged ==
  UNCHANGED <<state, manifest, chunks, chunkIndex, loading, scanned, shown, results,
              status, initPc, inflight, timers, debounceTimer, started, merged, burst,
              legacyFetched, config, input, localStorage, siteFavs, today, gens>>

\* matchItem(it) under the query state
ApplyMatchItem ==
  /\ input.fn = "matchItem"
  /\ output = <<>>
  /\ output' = <<Bool(matchItem(input.arg))>>
  /\ PureUnchanged

\* normalizeItem(raw)
ApplyNormalizeItem ==
  /\ input.fn = "normalizeItem"
  /\ output = <<>>
  /\ output' = <<normalizeItem(input.arg)>>
  /\ PureUnchanged

\* normalizeManifest(m), then normalizeManifest of the result
ApplyNormalizeManifest ==
  /\ input.fn = "normalizeManifest"
  /\ Len(output) < MaxApply
  /\ output' = Append(output, normalizeManifest(IF output = <<>> THEN input.arg
                                                ELSE output[Len(output)]))
  /\ PureUnchanged

PureNext ==
  \/ ApplyMatchItem
  \/ ApplyNormalizeItem
  \/ ApplyNormalizeManifest

PureSpec == PureInit /\ [][PureNext]_vars

----------------------------------------------------------------------------
(* Shorts page (shorts_video.js): the seeded generator.  A 32-bit word is  *)
(* the pair <<hi, lo>> of its 16-bit halves, so that no intermediate value *)
(* leaves the integers the checker can hold.                                *)

Half == 65536

RECURSIVE Pow2(_)
Pow2(k) == IF k = 0 THEN 1 ELSE 2 * Pow2(k - 1)

\* a ^ b and a | b bit by bit
RECURSIVE XorBits(_, _)
XorBits(a, b) ==
  IF a = 0 THEN b
  ELSE IF b = 0 THEN a
  ELSE ((a + b) % 2) + 2 * XorBits(a \div 2, b \div 2)

RECURSIVE OrBits(_, _)
OrBits(a, b) ==
  IF a = 0 THEN b
  ELSE IF b = 0 THEN a
  ELSE (IF a % 2 = 1 \/ b % 2 = 1 THEN 1 ELSE 0) + 2 * OrBits(a \div 2, b \div 2)

\* the two operators tabulated on hexadecimal digits
XorDigit == [a \in 0 .. 15 |-> [b \in 0 .. 15 |-> XorBits(a, b)]]

OrDigit == [a \in 0 .. 15 |-> [b \in 0 .. 15 |-> OrBits(a, b)]]

\* a ^ b and a | b on halves, digit by digit
Xor16(a, b) ==
  XorDigit[a % 16][b % 16]
  + 16 * XorDigit[(a \div 16) % 16][(b \div 16) % 16]
  + 256 * XorDigit[(a \div 256) % 16][(b \div 256) % 16]
  + 4096 * XorDigit[a \div 4096][b \div 4096]

Or16(a, b) ==
  OrDigit[a % 16][b % 16]
  + 16 * OrDigit[(a \div 16) % 16][(b \div 16) % 16]
  + 256 * OrDigit[(a \div 256) % 16][(b \div 256) % 16]
  + 4096 * OrDigit[a \div 4096][b \div 4096]

XorW(a, b) == <<Xor16(a[1], b[1]), Xor16(a[2], b[2])>>

OrW(a, b) == <<Or16(a[1], b[1]), Or16(a[2], b[2])>>

\* a >>> k for 0 < k < 16
ShrW(a, k) ==
  <<a[1] \div Pow2(k), (a[2] \div Pow2(k)) + (a[1] % Pow2(k)) * Pow2(16 - k)>>

\* (a + b) modulo 2^32
AddW(a, b) ==
  <<(a[1] + b[1] + (a[2] + b[2]) \div Half) % Half, (a[2] + b[2]) % Half>>

\* Math.imul(a, b): the low 32 bits of the product, byte by byte
imul(a, b) ==
  LET a0 == a[2] % 256
      a1 == a[2] \div 256
      a2 == a[1] % 256
      a3 == a[1] \div 256
      b0 == b[2] % 256
      b1 == b[2] \div 256
      b2 == b[1] % 256
      b3 == b[1] \div 256
      p0 == a0 * b0
      p1 == a0 * b1 + a1 * b0
      p2 == a0 * b2 + a1 * b1 + a2 * b0
      p3 == a0 * b3 + a1 * b2 + a2 * b1 + a3 * b0
      lo == p0 + (p1 % 256) * 256
  IN <<(p1 \div 256 + p2 + (p3 % 256) * 256 + lo \div Half) % Half, lo % Half>>

\* the printable ASCII characters, charCodeAt 32 to 126 (the double quote,
\* the backslash and the backtick are left as names: no key or id holds them)
Printable ==
  <<" ", "!", "(quote)", "#", "$", "%", "&", "'", "(", ")", "*", "+",
    ",", "-", ".", "/", "0", "1", "2", "3", "4", "5", "6", "7",
    "8", "9", ":", ";", "<", "=", ">", "?", "@", "A", "B", "C",
    "D", "E", "F", "G", "H", "I", "J", "K", "L", "M", "N", "O",
    "P", "Q", "R", "S", "T", "U", "V", "W", "X", "Y", "Z", "[",
    "(backslash)", "]", "^", "_", "(backtick)", "a", "b", "c", "d", "e", "f", "g",
    "h", "i", "j", "k", "l", "m", "n", "o", "p", "q", "r", "s",
    "t", "u", "v", "w", "x", "y", "z", "{", "|", "}", "~">>

charCodeAt(c) == 31 + (CHOOSE i \in 1..Len(Printable) : Printable[i] = c)

\* 2166136261 = 0x811C9DC5 and 16777619 = 0x01000193
FnvOffset == <<33052, 40389>>
FnvPrime == <<256, 403>>

\* the unsigned 32-bit values, what >>> 0 yields
Uint32 == (0 .. Half - 1) \X (0 .. Half - 1)

\* the loop of hash32 from character i on; h is an unsigned 32-bit value at
\* every turn (it starts as one and each turn ends in >>> 0)
RECURSIVE hash32From(_, _, _)
hash32From(s, i, h) ==
  IF i > Len(s) \/ h \notin Uint32 THEN h
  ELSE hash32From(s, i + 1, imul(XorW(h, <<0, charCodeAt(s[i])>>), FnvPrime))

hash32(s) == hash32From(s, 1, FnvOffset)

\* 0x6D2B79F5
Step == <<27947, 31221>>

\* mulberry32(a): the closure variable t, a Number that starts as a >>> 0.
\* It is kept as <<ov, hi, lo>>, its value being ov * 2^32 + hi * 2^16 + lo
mulberry32(a) == <<0, a[1], a[2]>>

\* ToUint32(t), what the bit operators see of t
Low32(t) == <<t[2], t[3]>>

\* mutant: the generator adds nothing to t
Advance_Stuck(t) == t

\* t += 0x6D2B79F5
Advance(t) ==
  LET lo == t[3] + Step[2]
      hi == t[2] + Step[1] + lo \div Half
  IN <<t[1] + hi \div Half, hi % Half, lo % Half>>

\* the body of the closure after t was advanced: the word v of the
\* returned value v / 4294967296
Scramble(t) ==
  LET u == Low32(t)
      r1 == imul(XorW(u, ShrW(u, 15)), OrW(<<0, 1>>, u))
      r2 == XorW(r1, AddW(r1, imul(XorW(r1, ShrW(r1, 7)), OrW(<<0, 61>>, r1))))
  IN XorW(r2, ShrW(r2, 14))

\* one call of the closure: the new t and the word returned
rand(t) == [t |-> Advance(t), v |-> Scramble(Advance(t))]

\* Math.floor((v / 4294967296) * n) for 0 < n < 32768
FloorMul(v, n) == (v[1] * n + (v[2] * n) \div Half) \div Half

\* mutant: arr[i] = arr[j] only
Swap_Overwrite(arr, i, j) == [arr EXCEPT ![i + 1] = arr[j + 1]]

\* [arr[i], arr[j]] = [arr[j], arr[i]], i and j 0-based
Swap(arr, i, j) == [arr EXCEPT ![i + 1] = arr[j + 1], ![j + 1] = arr[i + 1]]

\* the loop of shuffleInPlace from index i down; js are the indices drawn
RECURSIVE shuffleFrom(_, _, _, _)
shuffleFrom(arr, t, i, js) ==
  IF i <= 0 THEN [arr |-> arr, t |-> t, js |-> js]
  ELSE LET r == rand(t)
           j == FloorMul(r.v, i + 1)
       IN shuffleFrom(Swap(arr, i, j), r.t, i - 1, Append(js, j))

\* shuffleInPlace(arr, rand) with rand a generator whose t is given
shuffleInPlace(arr, t) == shuffleFrom(arr, t, Len(arr) - 1, <<>>)

----------------------------------------------------------------------------
(* Shorts page: favourites, learned features and recommendOrder.  An id, a *)
(* tag or a name is a sequence of characters; a map is a function from its *)
(* keys to their counts.                                                    *)

NumItems == 4
MaxFavs == 2

\* the cap of site.js on the favourites it keeps
FavCap == 300

\* the .short-item elements of the feed with their data attributes as
\* JSON.parse returns them (Undef: the attribute is absent, blank or not
\* JSON, the cases in which parseMetaJSON returns its fallback)
ItemPool ==
  <<[id |-> <<"a">>, tags |-> Arr(<<Str(TagVr)>>), actresses |-> Arr(<<Str(<<"P">>)>>),
     maker |-> Str(MakerM), series |-> Undef, label |-> Undef],
    [id |-> <<"b">>, tags |-> Arr(<<Str(TagVr)>>), actresses |-> Arr(<<Str(<<"P">>)>>),
     maker |-> Str(MakerM), series |-> Str(<<>>), label |-> Undef],
    [id |-> <<"c">>, tags |-> Arr(<<Str(TagOutdoor), Str(<<>>)>>), actresses |-> Arr(<<>>),
     maker |-> Num(1), series |-> Str(SeriesS), label |-> Str(<<"L">>)],
    [id |-> <<"d">>, tags |-> Undef, actresses |-> Str(<<"P">>),
     maker |-> Undef, series |-> Undef, label |-> Undef],
    [id |-> <<"e">>, tags |-> Arr(<<Str(TagVr), Str(TagOutdoor)>>),
     actresses |-> Arr(<<>>), maker |-> Str(MakerM), series |-> Str(SeriesS),
     label |-> Undef]>>

\* the feed in document order
Feed == [i \in 1 .. Min(NumItems, Len(ItemPool)) |-> ItemPool[i]]

\* the works starred on the pages of site.js: one of the feed and one that
\* only those pages show
SiteIds == {<<"a">>, <<"s">>}

EmptyMap == [k \in {} |-> 0]

\* arr.map(String) of loadFavSet and new Set(...): the first occurrences, in
\* order
RECURSIVE SetOf(_)
SetOf(arr) ==
  IF arr = <<>> THEN <<>>
  ELSE LET init == SetOf(SubSeq(arr, 1, Len(arr) - 1))
           x == arr[Len(arr)]
       IN IF \E i \in 1..Len(init) : init[i] = x THEN init ELSE Append(init, x)

\* loadFavSet() and loadFavFeatures() on a storage
loadFavSet(ls) == SetOf(ls.favs)

loadFavFeatures(ls) == ls.feats

\* parseMetaJSON(s, fallback)
parseMetaJSON(attr, fallback) == IF attr = Undef THEN fallback ELSE attr

\* xs.map(String).filter(Boolean) on an array of strings and numbers
RECURSIVE Names(_)
Names(xs) ==
  IF xs = <<>> THEN <<>>
  ELSE (IF JsToString(Head(xs)) = <<>> THEN <<>> ELSE <<JsToString(Head(xs))>>)
         \o Names(Tail(xs))

readItemMeta(item) ==
  LET tags == parseMetaJSON(item.tags, Arr(<<>>))
      actresses == parseMetaJSON(item.actresses, Arr(<<>>))
      maker == parseMetaJSON(item.maker, Str(<<>>))
      series == parseMetaJSON(item.series, Str(<<>>))
      label == parseMetaJSON(item.label, Str(<<>>))
  IN [tags |-> IF IsArray(tags) THEN Names(tags.v) ELSE <<>>,
      actresses |-> IF IsArray(actresses) THEN Names(actresses.v) ELSE <<>>,
      maker |-> IF maker.t = "str" THEN maker.v ELSE <<>>,
      series |-> IF series.t = "str" THEN series.v ELSE <<>>,
      label |-> IF label.t = "str" THEN label.v ELSE <<>>]

\* feats[id] = v and delete feats[id] on the parsed feature store
Put(f, k, v) == [x \in DOMAIN f \cup {k} |-> IF x = k THEN v ELSE f[x]]

Delete(f, k) == [x \in DOMAIN f \ {k} |-> f[x]]

learnFavFeatures(ls, id, item) ==
  IF id = <<>> THEN ls ELSE [ls EXCEPT !.feats = Put(@, id, readItemMeta(item))]

forgetFavFeatures(ls, id) ==
  IF id = <<>> THEN ls ELSE [ls EXCEPT !.feats = Delete(@, id)]

\* set.delete(id) on an insertion-ordered set
Without(set, id) == SelectSeq(set, LAMBDA x : x # id)

\* mutant: a favourite switched off keeps its snapshot
toggleFavIn_NoForget(ls, id, item) ==
  IF id = <<>> THEN ls
  ELSE LET set == loadFavSet(ls)
       IN IF \E i \in 1..Len(set) : set[i] = id
          THEN [ls EXCEPT !.favs = Without(set, id)]
          ELSE [learnFavFeatures(ls, id, item) EXCEPT !.favs = Append(set, id)]

\* toggleFav(workId, item) of shorts_video.js on a storage
toggleFavIn(ls, id, item) ==
  IF id = <<>> THEN ls
  ELSE LET set == loadFavSet(ls)
       IN IF \E i \in 1..Len(set) : set[i] = id
          THEN [forgetFavFeatures(ls, id) EXCEPT !.favs = Without(set, id)]
          ELSE [learnFavFeatures(ls, id, item) EXCEPT !.favs = Append(set, id)]

\* map.set(k, (map.get(k) || 0) + w) unless the key is empty
addCount(map, key, w) ==
  IF key = <<>> THEN map
  ELSE Put(map, key, (IF key \in DOMAIN map THEN map[key] ELSE 0) + w)

RECURSIVE addAll(_, _)
addAll(map, keys) ==
  IF keys = <<>> THEN map ELSE addAll(addCount(map, Head(keys), 1), Tail(keys))

EmptyProfile ==
  [tags |-> EmptyMap, actresses |-> EmptyMap, maker |-> EmptyMap, series |-> EmptyMap,
   label |-> EmptyMap]

\* the body of the for loop of buildProfile
addSnapshot(prof, f) ==
  [tags |-> addAll(prof.tags, f.tags),
   actresses |-> addAll(prof.actresses, f.actresses),
   maker |-> addCount(prof.maker, f.maker, 1),
   series |-> addCount(prof.series, f.series, 1),
   label |-> addCount(prof.label, f.label, 1)]

\* mutant: every snapshot of the store is counted, favourite or not
buildProfileFrom_AllSnapshots(feats, favSet, prof) ==
  LET ids == DOMAIN feats
      RECURSIVE Fold(_, _)
      Fold(S, p) ==
        IF S = {} THEN p
        ELSE LET id == CHOOSE x \in S : TRUE
             IN Fold(S \ {id}, addSnapshot(p, feats[id]))
  IN Fold(ids, prof)

\* the for loop of buildProfile over the favourites in insertion order
RECURSIVE buildProfileFrom(_, _, _)
buildProfileFrom(feats, favSet, prof) ==
  IF favSet = <<>> THEN prof
  ELSE buildProfileFrom(feats, Tail(favSet),
                        IF Head(favSet) \in DOMAIN feats
                        THEN addSnapshot(prof, feats[Head(favSet)])
                        ELSE prof)

buildProfile(ls, favSet) == buildProfileFrom(loadFavFeatures(ls), favSet, EmptyProfile)

\* mutant: a profile never counts as empty
profileIsEmpty_Never(prof) == FALSE

profileIsEmpty(prof) ==
  /\ DOMAIN prof.tags = {}
  /\ DOMAIN prof.actresses = {}
  /\ DOMAIN prof.maker = {}
  /\ DOMAIN prof.series = {}
  /\ DOMAIN prof.label = {}

\* map.get(k) || 0
Count(map, k) == IF k \in DOMAIN map THEN map[k] ELSE 0

RECURSIVE SumCount(_, _)
SumCount(map, keys) ==
  IF keys = <<>> THEN 0 ELSE Count(map, Head(keys)) + SumCount(map, Tail(keys))

\* scoreItem(meta, prof) in tenths: the weights 0.8, 2.2, 1.1, 1.8 and 0.8
scoreItem(meta, prof) ==
  SumCount(prof.tags, meta.tags) * 8
    + SumCount(prof.actresses, meta.actresses) * 22
    + Count(prof.maker, meta.maker) * 11
    + Count(prof.series, meta.series) * 18
    + Count(prof.label, meta.label) * 8

\* a < b on strings, by character codes, as Array.prototype.sort compares
RECURSIVE StrLess(_, _)
StrLess(a, b) ==
  IF b = <<>> THEN FALSE
  ELSE IF a = <<>> THEN TRUE
  ELSE IF Head(a) # Head(b) THEN charCodeAt(Head(a)) < charCodeAt(Head(b))
  ELSE StrLess(Tail(a), Tail(b))

\* xs with x put before the first element that Before(x, _) holds for
InsertBy(Before(_, _), xs, x) ==
  LET k == IF \E i \in 1..Len(xs) : Before(x, xs[i])
           THEN CHOOSE i \in 1..Len(xs) :
                  Before(x, xs[i]) /\ \A j \in 1..(i - 1) : ~Before(x, xs[j])
           ELSE Len(xs) + 1
  IN SubSeq(xs, 1, k - 1) \o <<x>> \o SubSeq(xs, k, Len(xs))

\* a stable sort: xs.sort(cmp) with Before(a, b) standing for cmp(a, b) < 0
RECURSIVE SortBy(_, _)
SortBy(Before(_, _), xs) ==
  IF xs = <<>> THEN <<>>
  ELSE InsertBy(Before, SortBy(Before, SubSeq(xs, 1, Len(xs) - 1)), xs[Len(xs)])

\* mutant: the favourites are joined in insertion order
seedOf_Unsorted(day, favSet) == day \o <<"|">> \o Join(favSet, <<",">>)

\* `${day}|${favKey}` with favKey = Array.from(favSet).sort().join(",")
seedOf(day, favSet) == day \o <<"|">> \o Join(SortBy(StrLess, favSet), <<",">>)

\* mutant: the ratio grows without its cap
relRatio_NoCap(favCount) == 25 + 6 * favCount

\* Math.min(0.88, 0.25 + 0.06 * favCount) in hundredths
relRatio(favCount) == Min(88, 25 + 6 * favCount)

\* v / 4294967296 < pct / 100 for a word v
Below(v, pct) ==
  LET hi == (pct * Half) \div 100
      rest == ((pct * Half) % 100) * Half
      lo == rest \div 100
  IN v[1] < hi \/ (v[1] = hi /\ (IF rest % 100 = 0 THEN v[2] < lo ELSE v[2] <= lo))

\* mutant: a favourite keeps its score
penalise_None(sc, fav) == sc

\* if (favSet.has(String(id))) sc -= 3.5, on a score in tenths
penalise(sc, fav) == IF fav THEN sc - 35 ELSE sc

\* a score with k twentieths of the value v / 4294967296 added to it, as the
\* number top * 2^32 + hi * 2^16 + lo of units of 0.05 / 2^32 (a tenth is
\* 2 * 2^32 units)
Jittered(sc, v, k) ==
  LET lo == v[2] * k
      hi == v[1] * k + lo \div Half
  IN <<2 * sc + hi \div Half, hi % Half, lo % Half>>

\* mutant: the jitter reaches 0.5
addJitter_Wide(sc, v) == Jittered(sc, v, 10)

\* sc += rand() * 0.05 with v the word of the value drawn.  The doubles of
\* the code differ from these exact sums by less than 10^-14, and two sums
\* that differ here differ by 0.05 / 2^32, above 10^-11, or more
addJitter(sc, v) == Jittered(sc, v, 1)

\* mutant: only the jitter is compared
Higher_JitterOnly(a, b) ==
  a.x[1] > b.x[1] \/ (a.x[1] = b.x[1] /\ a.x[2] > b.x[2])

\* b.sc - a.sc < 0, the comparator of scored.sort
Higher(a, b) ==
  \/ a.sc[1] > b.sc[1]
  \/ a.sc[1] = b.sc[1] /\ a.sc[2] > b.sc[2]
  \/ a.sc[1] = b.sc[1] /\ a.sc[2] = b.sc[2] /\ a.sc[3] > b.sc[3]

\* items.map(...) of recommendOrder from item i on: for each item its score
\* sc as the code leaves it, with the profile score (base, in tenths) and
\* the word x of the jitter it was made from
RECURSIVE scoreFrom(_, _, _, _, _, _)
scoreFrom(items, prof, favSet, t, i, acc) ==
  IF i > Len(items) THEN [scored |-> acc, t |-> t]
  ELSE LET r == rand(t)
           base == scoreItem(readItemMeta(items[i]), prof)
           fav == \E k \in 1..Len(favSet) : favSet[k] = items[i].id
           sc == addJitter(penalise(base, fav), r.v)
       IN scoreFrom(items, prof, favSet, r.t, i + 1,
                    Append(acc, [it |-> items[i], sc |-> sc, base |-> base, x |-> r.v]))

\* mutant: an id already placed is placed again
RECURSIVE interleave_NoUsedCheck(_, _, _, _, _, _, _, _, _)
interleave_NoUsedCheck(n, related, random, pct, t, ri, qi, out, iters) ==
  IF Len(out) >= n THEN [out |-> out, iters |-> iters, ri |-> ri, qi |-> qi]
  ELSE LET both == ri < Len(related) /\ qi < Len(random)
           r == rand(t)
           pickRelated == ri < Len(related) /\ (qi >= Len(random) \/ Below(r.v, pct))
           t1 == IF both THEN r.t ELSE t
           cand == IF pickRelated THEN related[ri + 1] ELSE random[qi + 1]
           ri1 == IF pickRelated THEN ri + 1 ELSE ri
           qi1 == IF pickRelated THEN qi ELSE qi + 1
       IN IF ~pickRelated /\ qi >= Len(random)
          THEN [out |-> out, iters |-> iters + 1, ri |-> ri1, qi |-> qi1]
          ELSE interleave_NoUsedCheck(n, related, random, pct, t1, ri1, qi1,
                                      Append(out, cand), iters + 1)

\* mutant: the list is chosen by the draw alone, exhausted or not
RECURSIVE interleave_NoFallback(_, _, _, _, _, _, _, _, _)
interleave_NoFallback(n, related, random, pct, t, ri, qi, out, iters) ==
  IF Len(out) >= n THEN [out |-> out, iters |-> iters, ri |-> ri, qi |-> qi]
  ELSE LET r == rand(t)
           pickRelated == Below(r.v, pct)
           ri1 == IF pickRelated THEN ri + 1 ELSE ri
           qi1 == IF pickRelated THEN qi ELSE qi + 1
           cand == IF pickRelated THEN related[ri + 1] ELSE random[qi + 1]
       IN IF (pickRelated /\ ri >= Len(related)) \/ (~pickRelated /\ qi >= Len(random))
          THEN [out |-> out, iters |-> iters + 1, ri |-> ri1, qi |-> qi1]
          ELSE IF \E k \in 1..Len(out) : out[k].id = cand.id
               THEN interleave_NoFallback(n, related, random, pct, r.t, ri1, qi1, out,
                                          iters + 1)
               ELSE interleave_NoFallback(n, related, random, pct, r.t, ri1, qi1,
                                          Append(out, cand), iters + 1)

\* the while loop of recommendOrder: iters counts the turns begun, the one
\* that ends in break (cand undefined, after qi++) included
RECURSIVE interleave(_, _, _, _, _, _, _, _, _)
interleave(n, related, random, pct, t, ri, qi, out, iters) ==
  IF Len(out) >= n THEN [out |-> out, iters |-> iters, ri |-> ri, qi |-> qi]
  ELSE LET both == ri < Len(related) /\ qi < Len(random)
           r == rand(t)
           pickRelated == ri < Len(related) /\ (qi >= Len(random) \/ Below(r.v, pct))
           t1 == IF both THEN r.t ELSE t
           cand == IF pickRelated THEN related[ri + 1] ELSE random[qi + 1]
           ri1 == IF pickRelated THEN ri + 1 ELSE ri
           qi1 == IF pickRelated THEN qi ELSE qi + 1
       IN IF ~pickRelated /\ qi >= Len(random)
          THEN [out |-> out, iters |-> iters + 1, ri |-> ri1, qi |-> qi1]
          ELSE IF \E k \in 1..Len(out) : out[k].id = cand.id
               THEN interleave(n, related, random, pct, t1, ri1, qi1, out, iters + 1)
               ELSE interleave(n, related, random, pct, t1, ri1, qi1,
                               Append(out, cand), iters + 1)

\* the element of a set of one
Only(S) == CHOOSE x \in S : TRUE

\* return shuffleInPlace(items.slice(), rand) of lines 225 and 228
plainOrder(items, t0) ==
  [out |-> shuffleInPlace(items, t0).arr, items |-> items, mixed |-> FALSE,
   scored |-> <<>>, sorted |-> <<>>, related |-> <<>>, random |-> <<>>, iters |-> 0,
   ri |-> 0, qi |-> 0]

\* lines 241 to 264 on the scored array s.scored and the generator's s.t
\* after it: the sort, the second shuffle and the interleave loop
blendOrder(items, favCount, s) ==
  Only({Only({[out |-> mix.out, items |-> items, mixed |-> TRUE, scored |-> s.scored,
               sorted |-> sorted, related |-> [i \in 1..Len(sorted) |-> sorted[i].it],
               random |-> randomList.arr, iters |-> mix.iters, ri |-> mix.ri,
               qi |-> mix.qi] :
              mix \in {interleave(Len(items), [i \in 1..Len(sorted) |-> sorted[i].it],
                                   randomList.arr, relRatio(favCount), randomList.t,
                                   0, 0, <<>>, 0)}}) :
         sorted \in {SortBy(Higher, s.scored)},
         randomList \in {shuffleInPlace(items, s.t)}})

\* lines 225 to 264 with the favourites and the generator made from them
orderWith(ls, items, favSet, t0) ==
  Only({IF Len(favSet) = 0 \/ profileIsEmpty(prof)
        THEN plainOrder(items, t0)
        ELSE Only({blendOrder(items, Len(favSet), s) :
                     s \in {scoreFrom(items, prof, favSet, t0, 1, <<>>)}}) :
          prof \in {buildProfile(ls, favSet)}})

\* recommendOrder(items) on a storage and a day, with what it went through
\* (scored is the array as items.map made it, sorted the array after its
\* sort); items is the argument after the call (only copies of it are
\* shuffled and sorted).  Each value is bound once it is computed, as the
\* consts of the code are
recommendTrace(ls, day, items) ==
  Only({Only({orderWith(ls, items, favSet, t0) :
                t0 \in {mulberry32(hash32(seedOf(day, favSet)))}}) :
          favSet \in {loadFavSet(ls)}})

recommendOrderIn(ls, day, items) == recommendTrace(ls, day, items).out

recommendOrder(items) == recommendOrderIn(localStorage, today, items)

----------------------------------------------------------------------------
(* The generator and the shuffle on their own: two generators are made     *)
(* from seed strings, asked for values and handed to shuffleInPlace.  Each  *)
(* generator is a closure with its own t; vals are the values it returned   *)
(* so far and last is the latest shuffle made with it.                      *)

MaxDraws == 3
MaxLen == 3

Seeds == {<<"x">>, <<"2", "0", "2", "6", "|", "a">>}

\* the sequences handed to shuffleInPlace: none, one element, MaxLen elements
Arrays == {<<>>, <<1>>, [i \in 1 .. MaxLen |-> i]}

NoShuffle == [arr |-> <<>>, t |-> <<>>, res |-> <<>>, js |-> <<>>, after |-> <<>>]

\* the values of n calls of a generator whose closure variable is t
RECURSIVE Draws(_, _)
Draws(t, n) == IF n = 0 THEN <<>> ELSE <<rand(t).v>> \o Draws(rand(t).t, n - 1)

\* const rand = mulberry32(hash32(seed))
MakeGen(seed) ==
  [seed |-> seed, t |-> mulberry32(hash32(seed)), vals |-> <<>>, last |-> NoShuffle]

\* mutant: the generators share one closure variable
NextGen_Shared(k) ==
  /\ Len(gens[k].vals) < MaxDraws
  /\ LET r == rand(gens[k].t)
     IN gens' = [i \in 1 .. Len(gens) |->
                  IF i = k THEN [gens[i] EXCEPT !.t = r.t, !.vals = Append(@, r.v)]
                  ELSE [gens[i] EXCEPT !.t = r.t]]

\* mutant: the closure returns (r ^ (r >>> 14)) / 4294967296 without >>> 0, a
\* signed 32-bit numerator
NextGen_Signed(k) ==
  /\ Len(gens[k].vals) < MaxDraws
  /\ LET r == rand(gens[k].t)
         signed == IF r.v[1] >= Half \div 2 THEN <<r.v[1] - Half, r.v[2]>> ELSE r.v
     IN gens' = [gens EXCEPT ![k] = [@ EXCEPT !.t = r.t, !.vals = Append(@, signed)]]

\* rand() on generator k
NextGen(k) ==
  /\ Len(gens[k].vals) < MaxDraws
  /\ LET r == rand(gens[k].t)
     IN gens' = [gens EXCEPT ![k] = [@ EXCEPT !.t = r.t, !.vals = Append(@, r.v)]]

\* shuffleInPlace(arr, rand) with generator k
ShuffleWith(k, arr) ==
  LET g == gens[k]
      sh == shuffleInPlace(arr, g.t)
  IN /\ Len(g.vals) + Len(arr) <= MaxDraws + 1
     /\ gens' = [gens EXCEPT ![k] =
                   [seed |-> g.seed, t |-> sh.t,
                    vals |-> g.vals \o Draws(g.t, Len(sh.js)),
                    last |-> [arr |-> arr, t |-> g.t, res |-> sh.arr, js |-> sh.js,
                              after |-> sh.t]]]

GenUnchanged ==
  UNCHANGED <<state, manifest, chunks, chunkIndex, loading, scanned, shown, results,
              status, initPc, inflight, timers, debounceTimer, started, merged, burst,
              legacyFetched, config, input, output, localStorage, siteFavs, today>>

\* two generators, each just made from a seed string
GenInit ==
  /\ input = NoInput
  /\ state = EmptyState
  /\ output = <<>>
  /\ config = [embed |-> Str(EmbedIntact), legacy |-> Undef, decompress |-> TRUE]
  /\ ScannerInit
  /\ localStorage = EmptyStorage
  /\ siteFavs = <<>>
  /\ today = <<>>
  /\ gens \in {<<MakeGen(s1), MakeGen(s2)>> : s1, s2 \in Seeds}

GenNext ==
  \/ \E k \in 1 .. Len(gens) : NextGen(k) /\ GenUnchanged
  \/ \E k \in 1 .. Len(gens), arr \in Arrays : ShuffleWith(k, arr) /\ GenUnchanged

GenSpec == GenInit /\ [][GenNext]_vars

----------------------------------------------------------------------------
(* The shorts page and the pages of site.js on the same storage: stars are  *)
(* toggled on both, and recommendOrder and buildProfile are applied to the  *)
(* storage that results.                                                    *)

\* new Date().toISOString().slice(0, 10) on the days the page is used
Days == {<<"2", "0", "2", "6", "-", "0", "1", "-", "0", "1">>,
         <<"2", "0", "2", "6", "-", "0", "1", "-", "0", "2">>}

RECURSIVE Reverse(_)
Reverse(xs) == IF xs = <<>> THEN <<>> ELSE Append(Reverse(Tail(xs)), Head(xs))

\* the lists handed to recommendOrder: the feed, the feed backwards, one
\* short, none, and a feed that holds one short twice
ItemLists ==
  {Feed, Reverse(Feed), SubSeq(Feed, 1, 1), <<>>, <<Feed[1], Feed[2], Feed[1]>>}

Observed(fn, arg) ==
  input' = [fn |-> fn, arg |-> arg, entry |-> Undef]

Forgotten == input' = NoInput /\ output' = <<>>

\* click on the star of a short: toggleFav(id, item)
ToggleFav(item) ==
  /\ \/ Len(loadFavSet(localStorage)) < MaxFavs
     \/ \E i \in 1 .. Len(localStorage.favs) : localStorage.favs[i] = item.id
  /\ localStorage' = toggleFavIn(localStorage, item.id, item)
  /\ Forgotten
  /\ UNCHANGED siteFavs

\* toggleFav(id) of site.js on the favourites the page holds
siteToggleFav(favs, id) ==
  LET toggled == IF \E i \in 1 .. Len(favs) : favs[i] = id
                 THEN Without(favs, id)
                 ELSE <<id>> \o favs
  IN SubSeq(toggled, 1, Min(Len(toggled), FavCap))

\* a page of site.js is opened (state.favs = load(KEY_FAV, [])) and the star
\* of a work is clicked on it: toggleFav(id) and persist()
SiteVisit(id) ==
  /\ \/ Len(localStorage.favs) < MaxFavs
     \/ \E i \in 1 .. Len(localStorage.favs) : localStorage.favs[i] = id
  /\ localStorage' = [localStorage EXCEPT !.favs = siteToggleFav(@, id)]
  /\ Forgotten
  /\ UNCHANGED siteFavs

\* recommendOrder(items)
ApplyRecommendOrder(items) ==
  /\ output = <<>>
  /\ Observed("recommendOrder", items)
  /\ output' = <<recommendTrace(localStorage, today, items)>>
  /\ UNCHANGED <<localStorage, siteFavs>>

\* buildProfile(loadFavSet())
ApplyBuildProfile ==
  /\ output = <<>>
  /\ Observed("buildProfile", Undef)
  /\ output' = <<buildProfile(localStorage, loadFavSet(localStorage))>>
  /\ UNCHANGED <<localStorage, siteFavs>>

RankUnchanged ==
  UNCHANGED <<state, manifest, chunks, chunkIndex, loading, scanned, shown, results,
              status, initPc, inflight, timers, debounceTimer, started, merged, burst,
              legacyFetched, config, today, gens>>

RankInit ==
  /\ input = NoInput
  /\ state = EmptyState
  /\ output = <<>>
  /\ config = [embed |-> Str(EmbedIntact), legacy |-> Undef, decompress |-> TRUE]
  /\ ScannerInit
  /\ localStorage = EmptyStorage
  /\ siteFavs = <<>>
  /\ today \in Days
  /\ gens = <<>>

RankNext ==
  \/ \E i \in 1 .. Len(Feed) : ToggleFav(Feed[i]) /\ RankUnchanged
  \/ \E id \in SiteIds : SiteVisit(id) /\ RankUnchanged
  \/ \E items \in ItemLists : ApplyRecommendOrder(items) /\ RankUnchanged
  \/ ApplyBuildProfile /\ RankUnchanged

RankSpec == RankInit /\ [][RankNext]_vars

----------------------------------------------------------------------------
(* The blend ratio of recommendOrder and the draw made with it, applied to  *)
(* favourite counts and to values of the generator.                         *)

MaxCount == 12

\* values v of rand() = v / 4294967296: the ends, and the last value below
\* and the first value not below 0.31 and 0.88
DrawWords ==
  {<<0, 0>>, <<20316, 10485>>, <<20316, 10486>>, <<57671, 44564>>, <<57671, 44565>>,
   <<65535, 65535>>}

BlendInputs ==
  {[fn |-> "relRatio", arg |-> n, entry |-> v] : n \in 1 .. MaxCount, v \in DrawWords}

\* relRatio = Math.min(0.88, 0.25 + 0.06 * favCount) and rand() < relRatio
ApplyRelRatio ==
  /\ input.fn = "relRatio"
  /\ output = <<>>
  /\ output' = <<[pct |-> relRatio(input.arg),
                  pick |-> Below(input.entry, relRatio(input.arg))]>>
  /\ PureUnchanged

BlendInit ==
  /\ input \in BlendInputs
  /\ state = EmptyState
  /\ output = <<>>
  /\ config = [embed |-> Str(EmbedIntact), legacy |-> Undef, decompress |-> TRUE]
  /\ ScannerInit
  /\ ShortsIdle

BlendNext == ApplyRelRatio

BlendSpec == BlendInit /\ [][BlendNext]_vars

----------------------------------------------------------------------------
(* One page that runs both scripts (site.js has its own initShortsFeed for *)
(* the page of shorts_video.js).  site.js reads catalog:favs:v1 once, when *)
(* the page is opened, into state.favs and writes state.favs back in every *)
(* persist(); shorts_video.js reads the key anew in every toggleFav.       *)

\* the shorts whose star is clicked on this page
Starred == SubSeq(Feed, 1, Min(2, Len(Feed)))

\* the page is opened or reloaded: state.favs = load(KEY_FAV, [])
PageOpen ==
  /\ siteFavs # localStorage.favs
  /\ siteFavs' = localStorage.favs
  /\ UNCHANGED localStorage

\* click on the star of a short: toggleFav(id, item) of shorts_video.js
ShortsStar(item) ==
  /\ \/ Len(loadFavSet(localStorage)) < MaxFavs
     \/ \E i \in 1 .. Len(localStorage.favs) : localStorage.favs[i] = item.id
  /\ localStorage' = toggleFavIn(localStorage, item.id, item)
  /\ UNCHANGED siteFavs

\* click on a star made by site.js: toggleFav(id) on state.favs, then
\* persist()
SiteStar(id) ==
  /\ \/ Len(siteFavs) < MaxFavs
     \/ \E i \in 1 .. Len(siteFavs) : siteFavs[i] = id
  /\ siteFavs' = siteToggleFav(siteFavs, id)
  /\ localStorage' = [localStorage EXCEPT !.favs = siteFavs']

\* addRecent(id) or attachFavButtonToCard(a): state.favs is not changed and
\* persist() writes it to the key
SitePersist ==
  /\ localStorage.favs # siteFavs
  /\ localStorage' = [localStorage EXCEPT !.favs = siteFavs]
  /\ UNCHANGED siteFavs

PageUnchanged ==
  UNCHANGED <<state, manifest, chunks, chunkIndex, loading, scanned, shown, results,
              status, initPc, inflight, timers, debounceTimer, started, merged, burst,
              legacyFetched, config, input, output, today, gens>>

\* the page just opened on an empty storage
PageInit ==
  /\ input = NoInput
  /\ state = EmptyState
  /\ output = <<>>
  /\ config = [embed |-> Str(EmbedIntact), legacy |-> Undef, decompress |-> TRUE]
  /\ ScannerInit
  /\ localStorage = EmptyStorage
  /\ siteFavs = <<>>
  /\ today \in Days
  /\ gens = <<>>

PageNext ==
  \/ PageOpen /\ PageUnchanged
  \/ \E i \in 1 .. Len(Starred) : ShortsStar(Starred[i]) /\ PageUnchanged
  \/ \E id \in SiteIds : SiteStar(id) /\ PageUnchanged
  \/ SitePersist /\ PageUnchanged

PageSpec == PageInit /\ [][PageNext]_vars

----------------------------------------------------------------------------
(* The search page with a user who changes the query once at most, at any  *)
(* moment, and an event loop that keeps its promises: loadManifest and     *)
(* every fetch settle, armed timers run down and fire, and the sentinel    *)
(* keeps intersecting.                                                      *)

\* the one query change: a text typed or the has-image box ticked
QueryChange ==
  /\ state = EmptyState
  /\ \/ \E text \in InputTexts : OnInputQ(text)
     \/ OnChangeHasImg

LiveNext ==
  \/ InitManifestLoaded
  \/ InitManifestFailed
  \/ FetchSettles
  \/ OnIntersect
  \/ Tick
  \/ DebounceFires
  \/ QueryChange

LiveSpec ==
  /\ Init
  /\ [][LiveNext]_vars
  /\ WF_vars(InitManifestLoaded \/ InitManifestFailed)
  /\ WF_vars(FetchSettles)
  /\ WF_vars(OnIntersect)
  /\ WF_vars(Tick)
  /\ WF_vars(DebounceFires)

----------------------------------------------------------------------------
(* Properties *)

ManifestChunks == IF manifest = Null THEN <<>> ELSE Get(manifest, "chunks").v

Fresh == {f \in inflight : ~f.stale}

\* the settled fetches of the current scan, in order of settlement
RECURSIVE OfScan(_)
OfScan(log) ==
  IF log = <<>> THEN <<>>
  ELSE IF log[1].stale THEN OfScan(Tail(log))
  ELSE <<log[1]>> \o OfScan(Tail(log))

RECURSIVE SumN(_)
SumN(log) == IF log = <<>> THEN 0 ELSE (IF log[1].ok THEN log[1].n ELSE 0) + SumN(Tail(log))

\* C1: at most one chunk fetch is in flight in every reachable state, and a
\* fetch is in flight only under the loading guard
C1_MutualExclusion ==
  /\ Cardinality(inflight) <= 1
  /\ inflight # {} => loading

\* a loadNextChunk call was refused by the guard: the debounce callback ran
\* clearResults and loadNextChunk while a fetch was in flight
C1_Witness ==
  /\ loading
  /\ burst.resets = 1
  /\ \E f \in inflight : f.stale

\* C2: the guard is set only while a fetch is in flight, and the step in
\* which a fetch settles, whatever its outcome, leaves the guard clear
CallEnded ==
  \E f \in inflight : f \notin inflight' /\ [f EXCEPT !.stale = TRUE] \notin inflight'

C2_GuardRelease ==
  [][/\ CallEnded => ~loading'
     /\ loading' <=> inflight' # {}]_vars

\* the guard is clear after a chunk that failed to load
C2_Witness ==
  /\ ~loading
  /\ status = MsgChunkFailed
  /\ \E i \in 1..Len(merged) : ~merged[i].ok

\* C3 (as claimed): no chunk whose fetch started before the latest
\* clearResults has its entries added to the counters of the new scan
C3_NoStaleMerge ==
  \A i \in 1..Len(merged) : ~(merged[i].stale /\ merged[i].ok /\ merged[i].n > 0)

\* C4 (as claimed): once the debounce callback has run, a fetch of the first
\* chunk of the manifest has been started by the new scan
C4_RescanStarts ==
  (burst.resets >= 1 /\ Len(ManifestChunks) > 0) => started # <<>>

\* C5: a burst of query changes is followed by exactly one run of the
\* debounce callback, which is either still pending or has run once, and it
\* never runs before DebounceMs have passed since the latest change
C5_Coalesce ==
  /\ burst.resets <= 1
  /\ ~burst.early
  /\ debounceTimer # 0 => Cardinality(DOMAIN timers) + burst.resets = 1
  /\ debounceTimer = 0 => DOMAIN timers = {} /\ burst.resets = 0

\* a burst of at least two changes was coalesced into one reset
C5_Witness ==
  /\ burst.n = 2
  /\ burst.resets = 1
  /\ DOMAIN timers = {}

\* C6: the fetches started since the latest clearResults are the first
\* chunkIndex chunks of the manifest in order, and all but possibly the last
\* of them have settled, in that order
C6_ManifestOrder ==
  /\ Len(started) = chunkIndex
  /\ chunkIndex <= Len(ManifestChunks)
  /\ \A k \in 1..Len(started) : started[k] = ManifestChunks[k]
  /\ Cardinality(Fresh) <= 1
  /\ Len(OfScan(merged)) + Cardinality(Fresh) = Len(started)
  /\ \A k \in 1..Len(OfScan(merged)) : OfScan(merged)[k].file = Get(started[k], "file")
  /\ \A f \in Fresh : f.chunk = started[Len(started)]

\* two chunks fetched in order after a reset by the debounce callback
C6_Witness ==
  /\ burst.resets = 1
  /\ Len(started) >= 2
  /\ Len(OfScan(merged)) >= 2

\* C7: shown never exceeds scanned
C7_ShownLeScanned == shown <= scanned

\* a filter is on and only part of the scanned entries is shown
C7_Witness ==
  /\ state # EmptyState
  /\ 0 < shown
  /\ shown < scanned

\* C8 (as claimed): scanned is the sum of the entry counts of the chunks of
\* the current scan that were fetched and decoded
C8_ScannedIsSum == scanned = SumN(OfScan(merged))

\* C9: a loadNextChunk call made while the guard is set, without a manifest
\* or with the cursor at the end of the queue changes nothing, and the
\* cursor leaves the end of the queue only by the debounce callback's reset
Blocked == loading \/ manifest = Null \/ chunkIndex >= Len(chunks)

C9_NoOp ==
  [][/\ (OnIntersect /\ Blocked) => UNCHANGED vars
     /\ (manifest # Null /\ chunkIndex >= Len(chunks) /\ chunkIndex' < Len(chunks'))
          => DebounceFires]_vars

\* the queue is exhausted while the observer keeps calling loadNextChunk
C9_Witness ==
  /\ initPc = "observing"
  /\ ~loading
  /\ Len(chunks) > 0
  /\ chunkIndex >= Len(chunks)
  /\ scanned > 0

\* C10: with the empty query, after n fetches of a fresh scan have all been
\* served and none other has settled, scanned = shown = the entry count of
\* the first n chunks, and as many cards are displayed
C10_EmptyQueryCounts ==
  (/\ manifest # Null
   /\ state = EmptyState
   /\ DOMAIN timers = {}
   /\ ~loading
   /\ \A i \in 1..Len(merged) : merged[i].served /\ ~merged[i].stale)
  => /\ scanned = SumCounts(Len(merged))
     /\ shown = scanned
     /\ Len(results) = shown

\* the scenario of an obfuscated chunk of 3 and a plain chunk of 2
C10_Witness ==
  /\ state = EmptyState
  /\ DOMAIN timers = {}
  /\ ~loading
  /\ Len(merged) = 2
  /\ \A i \in 1..Len(merged) : merged[i].served /\ ~merged[i].stale
  /\ EndsWith(merged[1].file.v, DotDat)
  /\ EndsWith(merged[2].file.v, DotJson)
  /\ scanned = 5
  /\ shown = 5

\* C11: once loading the manifest has failed, the page stays failed: the
\* manifest is absent, no chunk fetch has been started or settled, no entry
\* is shown, and the status is one of the two manifest failure texts, neither
\* of which is the text of a chunk failure
C11_ManifestFailureFatal ==
  /\ [](initPc = "failed" =>
          /\ manifest = Null
          /\ ~loading
          /\ inflight = {}
          /\ started = <<>>
          /\ merged = <<>>
          /\ shown = 0
          /\ results = <<>>
          /\ status \in {MsgManifestFailed, MsgUnsupported}
          /\ status # MsgChunkFailed)
  /\ [][initPc = "failed" => initPc' = "failed"]_vars

\* the legacy manifest could not be read in a browser without
\* DecompressionStream
C11_Witness ==
  /\ initPc = "failed"
  /\ legacyFetched
  /\ status = MsgUnsupported

NonBlankEmbed == Truthy(config.embed) /\ Trim(config.embed.v) # <<>>

\* C12: with a non-blank embedded blob the legacy URL is never fetched and
\* loading succeeds exactly when the blob decodes; without one the legacy URL
\* is fetched when it is configured, and loading fails when it is not
C12_SourceSelection ==
  initPc # "loadManifest" =>
    /\ NonBlankEmbed => ~legacyFetched
    /\ NonBlankEmbed =>
         (initPc = "failed" <=> ~(config.embed.v = EmbedIntact /\ config.decompress))
    /\ legacyFetched <=> (~NonBlankEmbed /\ Truthy(config.legacy))
    /\ (~NonBlankEmbed /\ Falsy(config.legacy)) => initPc = "failed"

\* a damaged blob beside a configured legacy URL: loading failed and the URL
\* was not fetched
C12_Witness ==
  /\ config.embed = Str(EmbedDamaged)
  /\ config.decompress
  /\ Truthy(config.legacy)
  /\ initPc = "failed"
  /\ ~legacyFetched

\* C13: a fetch begun by init() or by the debounce callback is a fetch of
\* the first chunk of the queue; any other chunk is fetched from the
\* IntersectionObserver callback
C13_OnlyObserverAdvances ==
  \A f \in inflight : f.chunk # chunks[1] => f.origin = "io"

\* the debounce callback has begun a fetch of the first chunk
C13_Witness ==
  /\ burst.resets >= 1
  /\ \E f \in inflight : f.origin = "timer" /\ f.chunk = chunks[1] /\ ~f.stale

LastOfScan == OfScan(merged)[Len(OfScan(merged))]

\* C14: when the latest fetch of the current scan has failed, the fetch the
\* IntersectionObserver callback begins next is a fetch of the failed chunk
C14_RetryByVisibility ==
  [][\A f \in inflight' \ inflight :
       (f.origin = "io" /\ OfScan(merged) # <<>> /\ ~LastOfScan.ok)
         => Get(f.chunk, "file") = LastOfScan.file]_vars

Applied(fn) == input.fn = fn /\ output # <<>>

HasImage(it) == Get(it, "has_img") \notin {Bool(FALSE), Undef}
HasVideo(it) == Get(it, "has_mov") \notin {Bool(FALSE), Undef}

\* C15: with the has-image box ticked an entry without image is rejected,
\* with the has-video box ticked an entry without video is rejected,
\* whatever the rest of the query state
C15_RequireFlags ==
  Applied("matchItem") =>
    /\ (state.hasImg /\ ~HasImage(input.arg)) => output[1] = Bool(FALSE)
    /\ (state.hasMov /\ ~HasVideo(input.arg)) => output[1] = Bool(FALSE)

\* only the has-video box is set, and an entry with image but without video
\* is rejected
C15_Witness ==
  /\ Applied("matchItem")
  /\ state = [EmptyState EXCEPT !.hasMov = TRUE]
  /\ HasImage(input.arg)
  /\ ~HasVideo(input.arg)
  /\ output = <<Bool(FALSE)>>

\* the tags of an entry, none when its tags field is not a list
TagSet(it) ==
  IF Get(it, "tags").t = "arr"
  THEN {Get(it, "tags").v[i] : i \in 1..Len(Get(it, "tags").v)}
  ELSE {}

\* C16: an entry that matches carries every selected tag; an entry lacking a
\* selected tag, or whose tags field is not a list, is rejected
C16_TagsAnd ==
  Applied("matchItem") =>
    /\ output[1] = Bool(TRUE) => \A tg \in state.tags : Str(tg) \in TagSet(input.arg)
    /\ (\E tg \in state.tags : Str(tg) \notin TagSet(input.arg)) => output[1] = Bool(FALSE)

\* tags vr and outdoor against the selection vr and indoor
C16_Witness ==
  /\ Applied("matchItem")
  /\ state = [EmptyState EXCEPT !.tags = {TagVr, TagIndoor}]
  /\ Get(input.arg, "tags") = Arr(<<Str(TagVr), Str(TagOutdoor)>>)
  /\ output = <<Bool(FALSE)>>

\* C17: a query state with a blank text, no maker, no series, no box ticked
\* and no tag selected matches every entry, also one lacking its fields
C17_EmptyQueryMatchesAll ==
  (/\ Applied("matchItem")
   /\ \A i \in 1..Len(state.q) : state.q[i] = " "
   /\ [state EXCEPT !.q = <<>>] = EmptyState)
    => output[1] = Bool(TRUE)

\* a text of one space against an entry that has only an id
C17_Witness ==
  /\ Applied("matchItem")
  /\ state = [EmptyState EXCEPT !.q = <<" ">>]
  /\ DOMAIN input.arg.v = {"id"}
  /\ output = <<Bool(TRUE)>>

\* the list a field holds, none when it is absent
ListOf(x) == IF x.t = "arr" THEN x.v ELSE <<>>

\* title, maker, series, the tags and the performers, each lower-cased and
\* trimmed, with one space between neighbours
RECURSIVE SpaceBefore(_)
SpaceBefore(xs) ==
  IF xs = <<>> THEN <<>> ELSE <<" ">> \o norm(Head(xs)) \o SpaceBefore(Tail(xs))

Haystack(it) ==
  Tail(SpaceBefore(<<Get(it, "title"), Get(it, "maker"), Get(it, "series")>>
                     \o ListOf(Get(it, "tags")) \o ListOf(Get(it, "actresses"))))

IsSubstring(q, hay) ==
  \E i \in 1..(Len(hay) + 1) :
    \A j \in 1..Len(q) : i + j - 1 <= Len(hay) /\ hay[i + j - 1] = q[j]

\* the flag, maker, series and tag checks
ChecksPass(st, it) ==
  /\ st.hasImg => HasImage(it)
  /\ st.hasMov => HasVideo(it)
  /\ st.maker # <<>> => Get(it, "maker") = Str(st.maker)
  /\ st.series # <<>> => Get(it, "series") = Str(st.series)
  /\ \A tg \in st.tags : Str(tg) \in TagSet(it)

\* C18: for an entry whose tags and performers are lists or absent, when the
\* flag, maker, series and tag checks pass and the trimmed lower-cased text
\* is not empty, matchItem is true exactly when that text is a substring of
\* the haystack; a match under a maker or series filter has exactly that
\* maker or series
C18_FreeText ==
  (/\ Applied("matchItem")
   /\ Get(input.arg, "tags").t \in {"arr", "undef"}
   /\ Get(input.arg, "actresses").t \in {"arr", "undef"})
    => /\ (ChecksPass(state, input.arg) /\ norm(Str(state.q)) # <<>>)
            => (output[1] = Bool(TRUE)
                  <=> IsSubstring(norm(Str(state.q)), Haystack(input.arg)))
       /\ (output[1] = Bool(TRUE) /\ state.maker # <<>>)
            => Get(input.arg, "maker").v = state.maker
       /\ (output[1] = Bool(TRUE) /\ state.series # <<>>)
            => Get(input.arg, "series").v = state.series

\* the text " x M " is found across the title and the maker of an entry
\* selected by its maker
C18_Witness ==
  /\ Applied("matchItem")
  /\ state = [EmptyState EXCEPT !.q = <<" ", "x", " ", "M", " ">>, !.maker = MakerM]
  /\ output = <<Bool(TRUE)>>

\* equality of two canonical entries, field by field
SameEntry(a, b) ==
  /\ a.t = "obj"
  /\ b.t = "obj"
  /\ \A i \in 1..Len(ItemFields) : Get(a, ItemFields[i]) = Get(b, ItemFields[i])

\* C19: normalizeItem of an array form of an entry, whole or cut, is the
\* same canonical entry as normalizeItem of its object form
C19_SameFromBothForms ==
  Applied("normalizeItem") => SameEntry(output[1], normalizeItem(input.entry))

\* an array form cut after its path
C19_Witness ==
  /\ Applied("normalizeItem")
  /\ input.arg.t = "arr"
  /\ Len(input.arg.v) = 5
  /\ Get(output[1], "tags") = Arr(<<>>)
  /\ Get(output[1], "has_mov") = Bool(FALSE)

\* the pairs of the c field of a compact manifest
PairsOf(m) == ListOf(Get(m, "c"))

\* C20: a second normalizeManifest returns what the first returned, and the
\* chunks of a normalized compact manifest are its pairs as {file, count}
\* objects in the same order
C20_Idempotent ==
  input.fn = "normalizeManifest" =>
    /\ \A i \in 2..Len(output) : output[i] = output[1]
    /\ (output # <<>> /\ Get(input.arg, "v") = Num(3)) =>
         /\ Len(Get(output[1], "chunks").v) = Len(PairsOf(input.arg))
         /\ \A i \in 1..Len(PairsOf(input.arg)) :
              Get(output[1], "chunks").v[i]
                = Obj([file |-> PairsOf(input.arg)[i].v[1],
                       count |-> PairsOf(input.arg)[i].v[2]])

\* the compact manifest with its chunks in the other order, normalized twice
C20_Witness ==
  /\ input.fn = "normalizeManifest"
  /\ Get(input.arg, "v") = Num(3)
  /\ Len(PairsOf(input.arg)) >= 2
  /\ PairsOf(input.arg)[1].v[1] = Str(ChunkFile(NumChunks))
  /\ Len(output) = 2

----------------------------------------------------------------------------
(* Properties of the generator, the shuffle and recommendOrder *)

Shuffled(g) == g.last # NoShuffle

\* C21: two generators made from the same seed string returned the same
\* values, call by call, and two generators whose closure variables were
\* equal when they shuffled equal sequences produced equal results
C21_SeededDeterminism ==
  \A k1, k2 \in 1 .. Len(gens) :
    /\ gens[k1].seed = gens[k2].seed =>
         \A i \in 1 .. Min(Len(gens[k1].vals), Len(gens[k2].vals)) :
           gens[k1].vals[i] = gens[k2].vals[i]
    /\ (Shuffled(gens[k1]) /\ Shuffled(gens[k2])
        /\ gens[k1].last.arr = gens[k2].last.arr
        /\ gens[k1].last.t = gens[k2].last.t) =>
         /\ gens[k1].last.res = gens[k2].last.res
         /\ gens[k1].last.after = gens[k2].last.after

\* two generators of one seed that both shuffled the same sequence of three
\* from the same state, two values drawn by each
C21_Witness ==
  \E k1, k2 \in 1 .. Len(gens) :
    /\ k1 # k2
    /\ gens[k1].seed = gens[k2].seed
    /\ Len(gens[k1].vals) >= 2
    /\ Len(gens[k2].vals) >= 2
    /\ gens[k1].vals[1] # gens[k1].vals[2]
    /\ Shuffled(gens[k1]) /\ Shuffled(gens[k2])
    /\ Len(gens[k1].last.arr) >= 3
    /\ gens[k1].last.arr = gens[k2].last.arr
    /\ gens[k1].last.t = gens[k2].last.t

\* how many times x occurs in the sequence xs
Occurrences(xs, x) == Cardinality({i \in 1 .. Len(xs) : xs[i] = x})

IsPermutation(xs, ys) ==
  /\ Len(xs) = Len(ys)
  /\ \A i \in 1 .. Len(xs) : Occurrences(xs, xs[i]) = Occurrences(ys, xs[i])

\* C22: shuffleInPlace returns a permutation of its argument, the index
\* drawn for position i lies in 0..i, and a sequence of length 0 or 1 comes
\* back unchanged with the generator untouched
C22_ShufflePermutes ==
  \A k \in 1 .. Len(gens) :
    Shuffled(gens[k]) =>
      LET sh == gens[k].last
          n == Len(sh.arr)
      IN /\ IsPermutation(sh.arr, sh.res)
         /\ Len(sh.js) = (IF n = 0 THEN 0 ELSE n - 1)
         /\ \A m \in 1 .. Len(sh.js) : sh.js[m] \in 0 .. (n - m)
         /\ n <= 1 => (sh.res = sh.arr /\ sh.after = sh.t)

\* one generator shuffled a sequence of three into another order, another
\* was handed a sequence of one
C22_Witness ==
  \E k1, k2 \in 1 .. Len(gens) :
    /\ Shuffled(gens[k1]) /\ Shuffled(gens[k2])
    /\ Len(gens[k1].last.arr) >= 3
    /\ gens[k1].last.res # gens[k1].last.arr
    /\ Len(gens[k2].last.arr) = 1
    /\ gens[k2].vals # <<>>

\* the favourites as loadFavSet() returns them
FavSet == loadFavSet(localStorage)

IsFav(id) == \E i \in 1 .. Len(FavSet) : FavSet[i] = id

\* no two entries of xs have the same data-id
DistinctIds(xs) == \A i, j \in 1 .. Len(xs) : xs[i].id = xs[j].id => i = j

\* C23: handed entries of pairwise distinct ids, recommendOrder returns a
\* list as long as its argument that holds each entry of the argument
\* exactly once and no id twice, and leaves the argument as it was
C23_OrderIsPermutation ==
  (Applied("recommendOrder") /\ DistinctIds(input.arg)) =>
    LET out == output[1].out
    IN /\ Len(out) = Len(input.arg)
       /\ \A i \in 1 .. Len(input.arg) : Occurrences(out, input.arg[i]) = 1
       /\ \A i, j \in 1 .. Len(out) : out[i].id = out[j].id => i = j
       /\ output[1].items = input.arg

\* the whole feed interleaved from the related and the random list, some
\* candidate met a second time and skipped
C23_Witness ==
  /\ Applied("recommendOrder")
  /\ output[1].mixed
  /\ Len(input.arg) >= 3
  /\ output[1].iters > Len(input.arg)
  /\ output[1].out # input.arg

\* no favourite has a learned snapshot with a tag, a performer, a maker, a
\* series or a label in it
NothingLearned ==
  \A id \in DOMAIN localStorage.feats :
    IsFav(id) =>
      /\ localStorage.feats[id].tags = <<>>
      /\ localStorage.feats[id].actresses = <<>>
      /\ localStorage.feats[id].maker = <<>>
      /\ localStorage.feats[id].series = <<>>
      /\ localStorage.feats[id].label = <<>>

\* C24: without favourites, or with favourites that taught nothing, the
\* result is the Fisher-Yates shuffle of the argument by the generator
\* seeded with the day, a bar and the sorted favourite ids joined by commas
C24_PlainShuffle ==
  (Applied("recommendOrder") /\ (FavSet = <<>> \/ NothingLearned)) =>
    /\ ~output[1].mixed
    /\ output[1].out =
         shuffleInPlace(input.arg,
                        mulberry32(hash32(today \o <<"|">>
                                            \o Join(SortBy(StrLess, FavSet), <<",">>)))).arr

\* two favourites that taught nothing, stored in descending order, and the
\* feed shuffled into another order
C24_Witness ==
  /\ Applied("recommendOrder")
  /\ Len(FavSet) >= 2
  /\ StrLess(FavSet[2], FavSet[1])
  /\ NothingLearned
  /\ Len(input.arg) >= 3
  /\ output[1].out # input.arg

\* the orders in which the entries of xs can be stored
Orders(xs) ==
  {q \in [1 .. Len(xs) -> {xs[i] : i \in 1 .. Len(xs)}] : IsPermutation(q, xs)}

\* C25: on the same day, feature store and argument, the favourites stored
\* in any other order give the ordering that was returned
C25_OrderIgnoresInsertion ==
  Applied("recommendOrder") =>
    \A q \in Orders(localStorage.favs) :
      recommendOrderIn([localStorage EXCEPT !.favs = q], today, input.arg) = output[1].out

\* favourites stored in descending order, with learned features, and the
\* whole feed interleaved
C25_Witness ==
  /\ Applied("recommendOrder")
  /\ Len(FavSet) >= 2
  /\ StrLess(FavSet[2], FavSet[1])
  /\ output[1].mixed
  /\ Len(input.arg) >= 3

\* C26: the ratio is min(0.88, 0.25 + 0.06 n) (in hundredths), the next
\* count's ratio is not smaller, it never exceeds 0.88, and the related list
\* is drawn exactly when the generator's value is below it, so that the
\* random list is drawn for the 12 in 100 highest values at least
C26_BlendRatio ==
  Applied("relRatio") =>
    LET n == input.arg
        v == input.entry
        pct == output[1].pct
    IN /\ pct = (IF 25 + 6 * n < 88 THEN 25 + 6 * n ELSE 88)
       /\ pct <= relRatio(n + 1)
       /\ pct <= 88
       /\ output[1].pick <=> (v[1] * 100 + (v[2] * 100) \div Half < pct * Half)
       /\ (v[1] * 100 + (v[2] * 100) \div Half >= 88 * Half) => ~output[1].pick

\* a count beyond the cap, with the first value that is not below 0.88
C26_Witness ==
  /\ Applied("relRatio")
  /\ 25 + 6 * input.arg > 88
  /\ input.entry = <<57671, 44565>>
  /\ output[1].pct = 88
  /\ ~output[1].pick

\* the values a snapshot holds in a field: the list itself, or the name if
\* there is one
Kept(f, field) ==
  IF field \in {"tags", "actresses"} THEN f[field]
  ELSE IF f[field] = <<>> THEN <<>> ELSE <<f[field]>>

\* the occurrences of v in a field of the snapshots of the favourites
Uses(field, v) ==
  Cardinality(UNION {{<<id, i>> : i \in {j \in 1 .. Len(Kept(localStorage.feats[id], field)) :
                                            Kept(localStorage.feats[id], field)[j] = v}} :
                      id \in {x \in DOMAIN localStorage.feats : IsFav(x)}})

\* the values in a field of any snapshot of the store
Values(field) ==
  UNION {{Kept(localStorage.feats[id], field)[i] :
            i \in 1 .. Len(Kept(localStorage.feats[id], field))} :
         id \in DOMAIN localStorage.feats}

\* C27: in each of the five maps the weight of a value is the number of its
\* occurrences in the snapshots of the current favourites (none for a value
\* that only other snapshots hold), and every weight kept is positive
C27_ProfileCounts ==
  Applied("buildProfile") =>
    \A field \in {"tags", "actresses", "maker", "series", "label"} :
      LET map == output[1][field]
      IN /\ \A v \in Values(field) \cup DOMAIN map :
              (IF v \in DOMAIN map THEN map[v] ELSE 0) = Uses(field, v)
         /\ \A v \in DOMAIN map : map[v] > 0

\* a favourite without a snapshot, a snapshot of a work that is no longer a
\* favourite, and a favourite whose snapshot is counted
C27_Witness ==
  /\ Applied("buildProfile")
  /\ \E i \in 1 .. Len(FavSet) : FavSet[i] \notin DOMAIN localStorage.feats
  /\ \E id \in DOMAIN localStorage.feats : ~IsFav(id)
  /\ \E v \in DOMAIN output[1].tags : output[1].tags[v] = 1

\* C28: clearResults() in the debounce callback yields cursor 0, scanned 0,
\* shown 0, no results and the manifest's chunk list as the queue, with the
\* guard as it was and every awaited fetch still awaited; the loadNextChunk
\* that follows it up to its await leaves counters, results and queue so,
\* and the step changes neither the manifest nor the query state
C28_ResetFrame ==
  [][DebounceFires =>
       LET R == clearResults(Cur, manifest)
       IN /\ R.chunkIndex = 0
          /\ R.scanned = 0
          /\ R.shown = 0
          /\ R.results = <<>>
          /\ R.chunks = ManifestChunks
          /\ R.loading = loading
          /\ {[chunk |-> f.chunk, origin |-> f.origin] : f \in R.inflight}
               = {[chunk |-> f.chunk, origin |-> f.origin] : f \in inflight}
          /\ Cardinality(R.inflight) = Cardinality(inflight)
          /\ scanned' = 0
          /\ shown' = 0
          /\ results' = <<>>
          /\ chunks' = ManifestChunks
          /\ loading => (loading' /\ chunkIndex' = 0)
          /\ manifest' = manifest
          /\ state' = state]_vars

\* the debounce callback has reset a scan whose fetch is still awaited: the
\* counters and the cursor are back at zero under the guard, a filter is on
C28_Witness ==
  /\ burst.resets >= 1
  /\ state # EmptyState
  /\ loading
  /\ \E f \in inflight : f.stale /\ f.chunk = ManifestChunks[NumChunks]
  /\ chunkIndex = 0
  /\ scanned = 0
  /\ chunks = ManifestChunks

\* C29: scanned, shown and the cursor are equal or larger after every step
\* that is not the debounce callback's clearResults
C29_Monotone ==
  [][~DebounceFires =>
       /\ scanned' >= scanned
       /\ shown' >= shown
       /\ chunkIndex' >= chunkIndex]_vars

\* a second chunk has failed after a first was counted, and the observer
\* has moved the cursor past both
C29_Witness ==
  /\ burst.resets = 0
  /\ chunkIndex >= 2
  /\ scanned > 0
  /\ shown > 0
  /\ status = MsgChunkFailed
  /\ \E i \in 2 .. Len(merged) : ~merged[i].ok /\ merged[1].ok

\* a call of loadNextChunk came to its end in this step
Settled == Len(merged') = Len(merged) + 1

\* the number k of the chunk file
ChunkOf(file) == CHOOSE k \in 1 .. NumChunks : Str(ChunkFile(k)) = file

\* the ids of the entries of chunk k that pass the predicate
HitsOf(k) ==
  LET its == [j \in 1 .. ChunkCount(k) |-> normalizeItem(RawEntry(k, j))]
      hits == SelectSeq(its, matchItem)
  IN [i \in 1 .. Len(hits) |-> Get(hits[i], "id")]

\* C30: a change of the query state leaves the awaited fetch awaited, a
\* fetch stops being awaited only when it settles, and a served chunk that
\* settles, begun before the latest clearResults or not, adds its entries to
\* scanned and those passing the predicate to shown and to the results
C30_InFlightSurvives ==
  [][/\ state' # state => (inflight' = inflight /\ loading' = loading)
     /\ \A f \in inflight :
          \/ f \in inflight'
          \/ [f EXCEPT !.stale = TRUE] \in inflight'
          \/ Settled
     /\ (Settled /\ merged'[Len(merged')].served) =>
          LET k == ChunkOf(merged'[Len(merged')].file)
          IN /\ scanned' = scanned + ChunkCount(k)
             /\ shown' = shown + Len(HitsOf(k))
             /\ results' = results \o HitsOf(k)]_vars

\* a fetch awaited when the query changed has settled after the debounce
\* callback's clearResults, and entries of it are counted and shown
C30_Witness ==
  /\ state # EmptyState
  /\ burst.resets >= 1
  /\ \E i \in 1 .. Len(merged) : merged[i].stale /\ merged[i].served
  /\ merged[1].stale
  /\ Len(merged) = 1
  /\ scanned = merged[1].n
  /\ shown > 0
  /\ Len(results) = shown

----------------------------------------------------------------------------
(* Properties of the generator's values and state, of the related ranking, *)
(* of the favourites stores and of the scan as a whole                      *)

\* C31: every value a generator returned is v / 4294967296 for an unsigned
\* 32-bit v (kept as its two halves), hence at least 0 and below 1
C31_UnitInterval ==
  \A k \in 1 .. Len(gens) :
    \A i \in 1 .. Len(gens[k].vals) :
      /\ gens[k].vals[i] \in Uint32
      /\ gens[k].vals[i][1] >= 0
      /\ gens[k].vals[i][1] < Half

\* a generator returned MaxDraws values, one of them with its top bit set
\* (0.5 or more) and one without, by direct calls and through a shuffle
C31_Witness ==
  \E k \in 1 .. Len(gens) :
    /\ Len(gens[k].vals) >= 3
    /\ \E i, j \in 1 .. Len(gens[k].vals) :
         /\ gens[k].vals[i][1] >= Half \div 2
         /\ gens[k].vals[j][1] < Half \div 2
    /\ Shuffled(gens[k])

\* C32 (as claimed): the closure variable of every generator is a 32-bit
\* integer, at least 0 and below 2^32, after every call
C32_StateIs32Bit ==
  \A k \in 1 .. Len(gens) :
    /\ gens[k].t[1] = 0
    /\ Low32(gens[k].t) \in Uint32

\* the call of recommendOrder under observation and the place of an entry
\* of its scored array in a ranking of that array
Trace == output[1]

Ranked == Applied("recommendOrder") /\ Trace.mixed

PlaceIn(list, e) == CHOOSE m \in 1 .. Len(list) : list[m].it = e.it /\ list[m].x = e.x

\* the scored array had no favourite been penalised, and its sort
Unpenalised ==
  SortBy(Higher, [k \in 1 .. Len(Trace.scored) |->
                    [Trace.scored[k] EXCEPT !.sc = addJitter(Trace.scored[k].base,
                                                             Trace.scored[k].x)]])

\* C33: of two entries with equal profile scores, one a favourite and one
\* not, the one that is not a favourite comes first in the related list, and
\* no favourite stands earlier in the related list than it stands in the
\* ranking made without the penalty
C33_FavouritePenalty ==
  Ranked =>
    /\ \A i, j \in 1 .. Len(Trace.sorted) :
         (/\ Trace.sorted[i].base = Trace.sorted[j].base
          /\ IsFav(Trace.sorted[i].it.id)
          /\ ~IsFav(Trace.sorted[j].it.id)) => j < i
    /\ \A k \in 1 .. Len(Trace.scored) :
         /\ Trace.scored[k].base
              = scoreItem(readItemMeta(Trace.scored[k].it), buildProfile(localStorage, FavSet))
         /\ IsFav(Trace.scored[k].it.id) =>
              PlaceIn(Trace.sorted, Trace.scored[k]) >= PlaceIn(Unpenalised, Trace.scored[k])
    /\ \A k \in 1 .. Len(Trace.related) : Trace.related[k] = Trace.sorted[k].it

\* a favourite and another entry have the same positive profile score, the
\* favourite drew the larger jitter and stands behind the other entry, and
\* it stands later than it would without the penalty
C33_Witness ==
  /\ Ranked
  /\ \E i, j \in 1 .. Len(Trace.sorted) :
       /\ Trace.sorted[i].base = Trace.sorted[j].base
       /\ Trace.sorted[i].base > 0
       /\ IsFav(Trace.sorted[i].it.id)
       /\ ~IsFav(Trace.sorted[j].it.id)
       /\ Higher([sc |-> <<0, Trace.sorted[i].x[1], Trace.sorted[i].x[2]>>],
                 [sc |-> <<0, Trace.sorted[j].x[1], Trace.sorted[j].x[2]>>])
       /\ j < i
       /\ PlaceIn(Trace.sorted, Trace.sorted[i]) > PlaceIn(Unpenalised, Trace.sorted[i])

\* the jitter word of entry a is larger than that of entry b
MoreJitter(a, b) == a.x[1] > b.x[1] \/ (a.x[1] = b.x[1] /\ a.x[2] > b.x[2])

\* C34: under a profile that is not empty, every entry that is no favourite
\* and has a positive profile score stands in the related list before every
\* entry whose profile score is 0
C34_MatchesFirst ==
  Ranked =>
    \A i, j \in 1 .. Len(Trace.sorted) :
      (/\ ~IsFav(Trace.sorted[i].it.id)
       /\ Trace.sorted[i].base > 0
       /\ Trace.sorted[j].base = 0) => i < j

\* an entry that shares features with a favourite stands before an entry
\* that shares none, is no favourite either and drew the larger jitter
C34_Witness ==
  /\ Ranked
  /\ \E i, j \in 1 .. Len(Trace.sorted) :
       /\ ~IsFav(Trace.sorted[i].it.id)
       /\ Trace.sorted[i].base > 0
       /\ Trace.sorted[j].base = 0
       /\ ~IsFav(Trace.sorted[j].it.id)
       /\ MoreJitter(Trace.sorted[j], Trace.sorted[i])
       /\ i < j

\* the profile score of an entry of the scored array less its penalty
Adjusted(e) == penalise(e.base, IsFav(e.it.id))

\* C35: in the related list an entry with the higher adjusted score stands
\* first whatever the jitters, and of two entries with equal adjusted scores
\* the one with the larger jitter stands first
C35_JitterBreaksTies ==
  Ranked =>
    \A i, j \in 1 .. Len(Trace.sorted) :
      /\ Adjusted(Trace.sorted[i]) > Adjusted(Trace.sorted[j]) => i < j
      /\ (/\ Adjusted(Trace.sorted[i]) = Adjusted(Trace.sorted[j])
          /\ MoreJitter(Trace.sorted[i], Trace.sorted[j])) => i < j

\* two entries whose adjusted scores are a tenth apart, the lower one with
\* the larger jitter, and two entries of equal adjusted scores that the
\* jitter put in the reverse of their order in the argument
C35_Witness ==
  /\ Ranked
  /\ \E i, j \in 1 .. Len(Trace.sorted) :
       /\ Adjusted(Trace.sorted[i]) = Adjusted(Trace.sorted[j]) + 1
       /\ MoreJitter(Trace.sorted[j], Trace.sorted[i])
  /\ \E i, j \in 1 .. Len(Trace.sorted) :
       /\ i < j
       /\ Adjusted(Trace.sorted[i]) = Adjusted(Trace.sorted[j])
       /\ PlaceIn(Trace.scored, Trace.sorted[i]) > PlaceIn(Trace.scored, Trace.sorted[j])

\* the ids of the entries of xs
IdsOf(xs) == {xs[i].id : i \in 1 .. Len(xs)}

\* C36 (as claimed): every turn of the interleave loop advances one cursor
\* and the loop ends within 2 n turns, n the length of the argument, with n
\* entries placed when the ids of the argument are distinct
C36_AtMostTwiceN ==
  Ranked =>
    /\ Trace.iters = Trace.ri + Trace.qi
    /\ Trace.iters <= 2 * Len(input.arg)
    /\ DistinctIds(input.arg) => Len(Trace.out) = Len(input.arg)

\* C36 (amended): every turn advances one cursor, no cursor reads past the
\* end of its list but for the turn that ends in break, and every id of the
\* argument is placed once.  With distinct ids the loop ends within 2 n
\* turns, in the turn that places the n-th entry; with a repeated id the
\* output stays short and the loop ends in turn 2 n + 1, by break, when both
\* lists are exhausted
C36_Terminates ==
  Ranked =>
    LET n == Len(input.arg)
    IN /\ Trace.iters = Trace.ri + Trace.qi
       /\ Trace.ri <= n
       /\ Trace.qi <= n + 1
       /\ IdsOf(Trace.out) = IdsOf(input.arg)
       /\ Len(Trace.out) = Cardinality(IdsOf(input.arg))
       /\ DistinctIds(input.arg) =>
            /\ Len(Trace.out) = n
            /\ Trace.qi <= n
            /\ Trace.iters <= 2 * n
            /\ \/ n = 0 /\ Trace.iters = 0
               \/ n > 0 /\ Trace.ri > 0 /\ Trace.out[n] = Trace.related[Trace.ri]
               \/ n > 0 /\ Trace.qi > 0 /\ Trace.out[n] = Trace.random[Trace.qi]
       /\ ~DistinctIds(input.arg) =>
            /\ Trace.ri = n
            /\ Trace.qi = n + 1
            /\ Trace.iters = 2 * n + 1

\* three or more entries of distinct ids were placed from both lists, some
\* candidate met a second time and skipped
C36_Witness ==
  /\ Ranked
  /\ DistinctIds(input.arg)
  /\ Len(input.arg) >= 3
  /\ Trace.ri > 0
  /\ Trace.qi > 0
  /\ Trace.iters > Len(input.arg)
  /\ Len(Trace.out) = Len(input.arg)

\* the favourites of a storage as a set of ids
FavIds(ls) == {loadFavSet(ls)[i] : i \in 1 .. Len(loadFavSet(ls))}

\* a storage as the stars of the shorts page alone leave it: a snapshot for
\* each favourite and for nothing else, each taken from the short of that id
ShortsOnly(ls) ==
  /\ DOMAIN ls.feats = FavIds(ls)
  /\ \A id \in DOMAIN ls.feats :
       \E i \in 1 .. Len(Feed) : Feed[i].id = id /\ ls.feats[id] = readItemMeta(Feed[i])

C38_NoLostFavourite ==
  [][\A i \in 1 .. Len(Starred) :
       (/\ Starred[i].id \in DOMAIN localStorage.feats
        /\ Starred[i].id \in FavIds(localStorage)
        /\ Starred[i].id \notin FavIds(localStorage'))
         => (ShortsStar(Starred[i]) \/ SiteStar(Starred[i].id))]_vars

\* C39 (as claimed): since the latest clearResults the entries of no chunk
\* were added twice: no file settled twice with its entries, scanned is at
\* most the number of entries of the whole catalog and no card is shown
\* twice
C39_NoDuplicateDisplay ==
  /\ \A i, j \in 1 .. Len(merged) :
       (merged[i].ok /\ merged[j].ok /\ merged[i].n > 0 /\ merged[i].file = merged[j].file)
         => i = j
  /\ scanned <= SumCounts(Len(ManifestChunks))
  /\ \A i, j \in 1 .. Len(results) : results[i] = results[j] => i = j

\* the Done state: a manifest, the cursor at the end of the queue, the guard
\* clear, and a fetch begun for every chunk of the manifest, in order, since
\* the latest clearResults
ScanDone ==
  /\ manifest # Null
  /\ chunkIndex = Len(chunks)
  /\ ~loading
  /\ inflight = {}
  /\ started = ManifestChunks

\* C40: once the manifest is loaded, if every fetch settles, the sentinel
\* keeps intersecting and the query changes no more, the scanner reaches
\* the Done state and stays in it
C40_ScanCompletes == (manifest # Null) ~> []ScanDone

\* Done after a query change reset the scan, a chunk of the new scan having
\* failed to load
C40_Witness ==
  /\ ScanDone
  /\ Len(ManifestChunks) >= 2
  /\ burst.resets >= 1
  /\ state # EmptyState
  /\ DOMAIN timers = {}
  /\ \E i \in 1 .. Len(merged) : ~merged[i].ok

====
